---- MODULE Spec2Model ----
(***************************************************************************)
(* A model of the relay routing core and of the subscriber half of the     *)
(* session engine of moq-rs.                                               *)
(*                                                                         *)
(* The module holds several state machines, one per component, each with   *)
(* its own next-state relation and specification over the same variables:  *)
(*   SpecRemotes     RemotesProducer / RemotesConsumer   (remote.rs)       *)
(*   SpecRemote      RemoteConsumer / RemoteTrackReader  (remote.rs)       *)
(*   SpecLocals      Locals / Registration               (local.rs)        *)
(*   SpecAnnounce    Consumer.serve + Locals + FileCoordinator             *)
(*   SpecSubscriber  Subscriber control messages and subgroup streams      *)
(*   SpecSession     request ids and the outgoing queue  (session/mod.rs)  *)
(*   SpecRun         the four tasks of Session::run      (session/mod.rs)  *)
(*   SpecSetup       connect / accept, largest_common    (session/mod.rs)  *)
(*   SpecProducer    Producer::serve_subscribe           (producer.rs)     *)
(*   SpecServe       Consumer.serve with either coordinator backend        *)
(*   SpecSubgroup    the objects of one subgroup stream  (subscriber.rs)   *)
(*   SpecCodec       TrackNamespace encode / decode  (track_namespace.rs)  *)
(*   SpecConfig      ApiCoordinatorConfig and the refresh timer            *)
(*   SpecFile        the lock cycle of the coordinator file                *)
(*   SpecAnnounced   PublishNamespace and the announced queue              *)
(*   SpecRecv        Session::run_recv, every class of control message     *)
(*   SpecSubscribeCall  Subscriber::subscribe next to run_send / run_recv  *)
(***************************************************************************)
EXTENDS Integers, Sequences, FiniteSets, TLC

VARIABLES
    \* ---- RemotesState (remote.rs:42-45) and the remotes it created
    remotes_lookup,      \* lookup: origin URL -> id of the Remote whose consumer is cached, 0 = absent
    remotes_requested,   \* requested: FIFO of RemoteProducers (ids) waiting to be started
    remotes,             \* every Remote created so far: id -> [url, st]
    route_ret            \* what the last route() call returned

varsRemotes == <<remotes_lookup, remotes_requested, remotes, route_ret>>

VARIABLES
    \* ---- RemoteState of one Remote (remote.rs:211-215) and its track readers
    remote_tracks,       \* tracks: key -> id of the reader the weak entry points to, 0 = absent
    remote_requested,    \* requested: FIFO of TrackWriters (reader ids) not yet taken by next()
    readers,             \* every (writer, reader) pair created: id -> [key, strong, st]
    remote_closed,       \* the RemoteProducer half of the state cell has been dropped
    sub_ret              \* what the last RemoteConsumer::subscribe returned

varsRemote == <<remote_tracks, remote_requested, readers, remote_closed, sub_ret>>

VARIABLES
    \* ---- Locals (local.rs:13-15) and the Registration handles it gave out
    locals_lookup,       \* lookup: namespace -> id of the registered TracksReader, 0 = absent
    regs,                \* every register() call so far: id -> [namespace, st]
    reg_ret              \* what the last Locals::register returned

varsLocals == <<locals_lookup, regs, reg_ret>>

VARIABLES
    \* ---- Consumer (consumer.rs) of each publisher session, and the coordinator file
    ann,                 \* the announce a publisher's Consumer is serving: p -> [namespace, pc, err, ok]
    consumer_running,    \* Consumer::run of the publisher's session is still looping
    rejected_before,     \* an earlier announce of this publisher was rejected
    coord_file,          \* CoordinatorData.namespaces: path string -> relay URL, or NoEntry
    other_handles        \* namespaces a second relay sharing the file holds a handle for

varsAnnounce == <<ann, consumer_running, rejected_before, coord_file, other_handles>>

VARIABLES
    \* ---- Subscriber (session/subscriber.rs) of one session
    subscribes,          \* request id -> [st, track_alias, err]; st = "active" while in the map,
                         \* err = the error the SubscribeRecv was failed with once removed
    subscribe_alias_map, \* track alias -> request id, 0 = absent
    streams              \* the recv_stream task of every inbound stream: [pc, track_alias,
                         \* notified, res, saw_ok]; saw_ok = a SUBSCRIBE_OK assigned the
                         \* stream's alias to a subscription while the stream was parked

varsSubscriber == <<subscribes, subscribe_alias_map, streams>>

VARIABLES
    \* ---- Session (session/mod.rs) the Subscriber belongs to
    session_res,         \* "running" while Session::run is being polled, else what run returned
    first_requestid,     \* Session::new's first_requestid: 0 after connect, 1 after accept
    next_requestid,      \* the AtomicU64 shared by the Publisher and Subscriber handles
    issued,              \* history: the ids returned by get_next_request_id, in the order of the fetch_add
    held,                \* caller -> <<>> or <<id>>: the id a caller holds between fetch_add and its push
    outgoing,            \* the outbound Queue<Message> between the handles and run_send
    pushed,              \* history: the messages the queue accepted, in push order
    written,             \* the messages run_send encoded onto the control stream, in order
    task_steps           \* history: task -> the number of loop turns the task of Session::run completed

varsRequests == <<first_requestid, next_requestid, issued, held>>
varsQueue == <<outgoing, pushed, written>>
varsSession == <<session_res, varsRequests, varsQueue, task_steps>>

VARIABLES
    \* ---- SETUP exchange on the control stream (Session::connect / Session::accept)
    client_setup,        \* [sent, by, versions]: the CLIENT_SETUP on the wire, sent by "connect" or by a "peer"
    server_setup,        \* [sent, closed, version]: the SERVER_SETUP on the wire, or the stream closed without one
    connect_res,         \* what Session::connect returned: "none" while it has not returned
    accept_res,          \* what Session::accept returned: "none" while it has not returned
    lc_call              \* [called, a, b, ret]: a call of largest_common and its result

varsSetup == <<client_setup, server_setup, connect_res, accept_res, lc_call>>

VARIABLES
    \* ---- Producer (producer.rs)
    serve_ret            \* the SUBSCRIBE a serve_subscribe task resolved and how: kind "none" when no task is active

varsProducer == <<serve_ret>>

VARIABLES
    \* ---- ApiCoordinator (api_coordinator.rs)
    coordinator_kind,    \* the Coordinator the relay was started with: "file" or "api"
    api_registry,        \* the registry behind moq-api: namespace path -> relay url or NoEntry
    api                  \* publisher -> the background tasks of its registration:
                         \*   refresh     "none" | "idle" | "patching" | "stopped" (the refresh task)
                         \*   shutdown_tx TRUE once the handle has sent the shutdown signal
                         \*   unregister  "none" | "pending" | "done" (the task spawned by Drop)

varsApi == <<coordinator_kind, api_registry, api>>

VARIABLES
    \* ---- one subgroup stream inside Subscriber::recv_subgroup
    wire,                \* the objects decoded from the stream so far, in wire order
    created,             \* the calls of subgroup_writer.create so far, each with current_object_id
    current_object_id,   \* the u64 local of recv_subgroup
    subgroup_res         \* "reading" while the loop runs, else what recv_subgroup ended with

varsSubgroup == <<wire, created, current_object_id, subgroup_res>>

VARIABLES
    \* ---- one call of the TrackNamespace codec (track_namespace.rs)
    codec                \* [op, ret]: the function called and what it returned

varsCodec == <<codec>>

VARIABLES
    \* ---- ApiCoordinatorConfig and the timer of one refresh task (api_coordinator.rs)
    config,              \* [registration_ttl_secs, refresh_interval_secs]
    refresh_timer,       \* [state, next_tick]: "none" | "running" | "panicked"
    clock,               \* seconds since the refresh task was spawned
    patch_times          \* the values of clock at which patch_origin was called

varsConfig == <<config, refresh_timer, clock, patch_times>>

VARIABLES
    \* ---- the coordinator file and the tasks that lock it (file_coordinator.rs)
    shared_file,         \* [truncated, data]: the file after set_len(0), or the document in it
    flock,               \* task -> "none" | "shared" | "exclusive": the lock of its open file
    ftask,               \* task -> [pc, op, namespace, data, seen]: its place in the cycle
    serial_data          \* history variable: the document after the operations so far,
                         \* applied one after the other in the order they took the lock

varsFile == <<shared_file, flock, ftask, serial_data>>

VARIABLES
    \* ---- the announces a Subscriber has received (session/subscriber.rs)
    announced,           \* the namespaces that are keys of the announce map
    announced_queue,     \* [closed, items]: the Announced handles waiting for the application
    subscriber_outgoing, \* the messages send_message pushed on the outgoing queue
    recv_log             \* history variable: [msg, namespace, res] of each recv_message call

varsAnnounced == <<announced, announced_queue, subscriber_outgoing, recv_log>>

VARIABLES
    \* ---- calls of Subscriber::subscribe next to run_send and run_recv (session/subscriber.rs)
    sub_pending,         \* caller -> <<>> or <<id>>: the id of the SUBSCRIBE it pushed and has not inserted yet
    sub_map,             \* the request ids that are keys of the subscribes map
    sub_replies          \* [handled, ignored]: the ids whose SUBSCRIBE_OK / SUBSCRIBE_ERROR run_recv
                         \* handed to the subscription, or dropped for want of an entry

varsSubscribeCall == <<sub_pending, sub_map, sub_replies>>

\* The variables of the components added first.
varsEarly ==
    <<varsRemotes, varsRemote, varsLocals, varsAnnounce, varsSubscriber, varsSession, varsSetup,
      varsProducer, varsApi, varsSubgroup>>

\* The variables of the components added last, which the earlier ones leave alone.
varsLate == <<varsCodec, varsConfig, varsFile, varsAnnounced, varsSubscribeCall>>

vars == <<varsRemotes, varsRemote, varsLocals, varsAnnounce, varsSubscriber, varsSession, varsSetup,
          varsProducer, varsApi, varsSubgroup, varsLate>>

(***************************************************************************)
(*                   Bounds of the model (not program values)              *)
(***************************************************************************)
\* Number of Remote values route() may create in one run of the model.
MaxRemotes == 3
\* Number of distinct origin URLs the coordinator may answer with.
NumUrls == 2

\* Number of (writer, reader) pairs RemoteConsumer::subscribe may create.
MaxReaders == 3
\* Number of distinct (namespace, name) keys requested from one remote.
NumKeys == 2
\* Largest number of live clones of one RemoteTrackReader.
MaxClones == 2

\* Largest number of fields of a namespace of the model.
MaxFields == 2
\* Number of Locals::register calls in one run of the model.
MaxRegs == 3

\* Number of publisher sessions connected to the relay.
NumPublishers == 2

\* Number of subscriptions a session issues and of media streams the peer opens.
NumSubs == 2
NumStreams == 1
MaxRequests == 3
NumCallers == 2
MaxSteps == 1
MaxVersions == 2
\* Number of objects on one subgroup stream, and the largest object_id_delta.
MaxObjects == 3
MaxDelta == 2
\* Width kept of the u64 current_object_id.
IdBits == 2
\* Number of freely chosen fields of a namespace handed to the codec.
MaxCodecFields == 2
\* The largest --api-ttl tried besides the default, and the number of refreshes followed.
MaxTtl == 30
MaxPatches == 3
MaxControlMessages == 3
MaxQueued == 1
MaxTrackStatus == 1

\* The largest payload_length of an object on a stream.
MaxPayload == 1

Urls == 1..NumUrls
SubIds == 1..NumSubs
\* The track aliases the peer uses in SUBSCRIBE_OK and in stream headers.
Aliases == {1, 2}
StreamIds == 1..NumStreams
Publishers == 1..NumPublishers
RemoteIds == 1..MaxRemotes
Keys == 1..NumKeys
ReaderIds == 1..MaxReaders

RegIds == 1..MaxRegs

None == 0

\* A tuple field is a byte string, here a sequence of one-character strings.
FieldValues == {<<"a">>, <<"b">>}

\* TrackNamespace: an ordered sequence of tuple fields. TrackNamespace::new() and
\* decode (count 0) both yield the namespace of no field.
Namespaces == UNION {[1..n -> FieldValues] : n \in 0..MaxFields}

\* The namespaces publishers announce in the announce state machine.
AnnounceNamespaces == {<<>>, <<<<"a">>>>, <<<<"a">>, <<"b">>>>}

\* relay_url of this relay's FileCoordinator, and of a second relay sharing the file.
ThisRelay == "https://relay-a"
OtherRelay == "https://relay-b"

\* The value of a key the coordinator file's map does not hold.
NoEntry == "absent"

Min(a, b) == IF a <= b THEN a ELSE b

\* The permutations of a finite set, as sequences: the orders in which a HashMap
\* may iterate over its keys.
Orders(S) == {o \in [1..Cardinality(S) -> S] : \A i, j \in 1..Cardinality(S) : o[i] = o[j] => i = j}

(***************************************************************************)
(*                Remotes: URL -> RemoteConsumer, queue of producers       *)
(***************************************************************************)

othersRemotes ==
    <<varsRemote, varsLocals, varsAnnounce, varsSubscriber, varsSession, varsSetup, varsProducer, varsApi,
      varsSubgroup, varsLate>>
othersRemote ==
    <<varsRemotes, varsLocals, varsAnnounce, varsSubscriber, varsSession, varsSetup, varsProducer, varsApi,
      varsSubgroup, varsLate>>
othersLocals ==
    <<varsRemotes, varsRemote, varsAnnounce, varsSubscriber, varsSession, varsSetup, varsProducer, varsApi,
      varsSubgroup, varsLate>>
othersAnnounce ==
    <<varsRemotes, varsRemote, regs, reg_ret, varsSubscriber, varsSession, varsSetup, varsProducer, varsApi,
      varsSubgroup, varsLate>>
othersSubscriber ==
    <<varsRemotes, varsRemote, varsLocals, varsAnnounce, varsSetup, varsProducer, varsApi,
      varsSubgroup, varsLate>>

InitRemotes ==
    /\ remotes_lookup = [u \in Urls |-> None]
    /\ remotes_requested = <<>>
    /\ remotes = [i \in RemoteIds |-> [url |-> None, st |-> "unused"]]
    /\ route_ret = [kind |-> "none", url |-> None, remote |-> None]

\* The Remote ids not handed out yet.
FreshRemotes == {i \in RemoteIds : remotes[i].st = "unused"}

\* RemotesConsumer::route. `origin` is the URL coordinator.lookup answered with.
\* The check of the map and the insertion happen under one lock (lock() then
\* into_mut() on the same guard).
RouteBuggy(origin) ==
    /\ FreshRemotes # {}
    /\ LET id == CHOOSE i \in FreshRemotes : \A j \in FreshRemotes : i <= j IN
        /\ remotes' = [remotes EXCEPT ![id] = [url |-> origin, st |-> "queued"]]
        /\ remotes_requested' = Append(remotes_requested, id)
        /\ remotes_lookup' = [remotes_lookup EXCEPT ![origin] = id]
        /\ route_ret' = [kind |-> "new", url |-> origin, remote |-> id]

Route(origin) ==
    IF remotes_lookup[origin] # None
    THEN /\ route_ret' = [kind |-> "cached", url |-> origin,
                          remote |-> remotes_lookup[origin]]
         /\ UNCHANGED <<remotes_lookup, remotes_requested, remotes>>
    ELSE /\ FreshRemotes # {}
         /\ LET id == CHOOSE i \in FreshRemotes : \A j \in FreshRemotes : i <= j IN
             /\ remotes' = [remotes EXCEPT ![id] = [url |-> origin, st |-> "queued"]]
             /\ remotes_requested' = Append(remotes_requested, id)
             /\ remotes_lookup' = [remotes_lookup EXCEPT ![origin] = id]
             /\ route_ret' = [kind |-> "new", url |-> origin, remote |-> id]

\* route() when coordinator.lookup fails: the `?` returns before the state is touched.
RouteLookupFails ==
    /\ route_ret' = [kind |-> "error", url |-> None, remote |-> None]
    /\ UNCHANGED <<remotes_lookup, remotes_requested, remotes>>

\* RemotesProducer::next + the first select! arm of RemotesProducer::run:
\* pop the front producer and push the task that runs it.
RemotesNext ==
    /\ remotes_requested # <<>>
    /\ LET id == Head(remotes_requested) IN
        /\ remotes_requested' = Tail(remotes_requested)
        /\ remotes' = [remotes EXCEPT ![id].st = "running"]
    /\ UNCHANGED <<remotes_lookup, route_ret>>

\* The task of a remote ends: remote.run() returned (connect failure, session
\* end or error) and the task yields the url.
RemoteRunExit(id) ==
    /\ remotes[id].st = "running"
    /\ remotes' = [remotes EXCEPT ![id].st = "finished"]
    /\ UNCHANGED <<remotes_lookup, remotes_requested, route_ret>>

\* The second select! arm of RemotesProducer::run: state.lookup.remove(&url).
RemotesRemove(id) ==
    /\ remotes[id].st = "finished"
    /\ remotes_lookup' = [remotes_lookup EXCEPT ![remotes[id].url] = None]
    /\ remotes' = [remotes EXCEPT ![id].st = "removed"]
    /\ UNCHANGED <<remotes_requested, route_ret>>

NextRemotes ==
    \/ \E origin \in Urls : Route(origin) /\ UNCHANGED othersRemotes
    \/ RouteLookupFails /\ UNCHANGED othersRemotes
    \/ RemotesNext /\ UNCHANGED othersRemotes
    \/ \E id \in RemoteIds : RemoteRunExit(id) /\ UNCHANGED othersRemotes
    \/ \E id \in RemoteIds : RemotesRemove(id) /\ UNCHANGED othersRemotes

(***************************************************************************)
(*      One Remote: RemoteConsumer.subscribe, RemoteTrackReader, its drop   *)
(***************************************************************************)

InitRemote ==
    /\ remote_tracks = [k \in Keys |-> None]
    /\ remote_requested = <<>>
    /\ readers = [g \in ReaderIds |-> [key |-> None, strong |-> 0, st |-> "unused"]]
    /\ remote_closed = FALSE
    /\ sub_ret = [kind |-> "none", reader |-> None]

FreshReaders == {g \in ReaderIds : readers[g].st = "unused"}

\* The readers of key k of which at least one clone is alive (Arc strong count > 0).
LiveReaders(k) == {g \in ReaderIds : readers[g].key = k /\ readers[g].st = "live"}

\* RemoteTrackWeak::upgrade: Weak::upgrade succeeds while the strong count is not 0.
Upgrades(g) == readers[g].strong > 0

\* RemoteConsumer::subscribe, all of it under the lock of the state cell.
RemoteSubscribe(k) ==
    IF remote_tracks[k] # None /\ Upgrades(remote_tracks[k])
    THEN \* the entry upgrades: hand out one more clone of the same reader
         /\ readers[remote_tracks[k]].strong < MaxClones
         /\ readers' = [readers EXCEPT ![remote_tracks[k]].strong = @ + 1]
         /\ sub_ret' = [kind |-> "cached", reader |-> remote_tracks[k]]
         /\ UNCHANGED <<remote_tracks, remote_requested, remote_closed>>
    ELSE IF remote_closed
    THEN \* state.into_mut() is None: Ok(None)
         /\ sub_ret' = [kind |-> "closed", reader |-> None]
         /\ UNCHANGED <<remote_tracks, remote_requested, readers, remote_closed>>
    ELSE /\ FreshReaders # {}
         /\ LET g == CHOOSE i \in FreshReaders : \A j \in FreshReaders : i <= j IN
             /\ readers' = [readers EXCEPT ![g] = [key |-> k, strong |-> 1, st |-> "live"]]
             /\ remote_tracks' = [remote_tracks EXCEPT ![k] = g]
             /\ remote_requested' = Append(remote_requested, g)
             /\ sub_ret' = [kind |-> "new", reader |-> g]
         /\ UNCHANGED remote_closed

\* #[derive(Clone)] on RemoteTrackReader: one more strong reference.
ReaderClone(g) ==
    /\ readers[g].st = "live"
    /\ readers[g].strong < MaxClones
    /\ readers' = [readers EXCEPT ![g].strong = @ + 1]
    /\ UNCHANGED <<remote_tracks, remote_requested, remote_closed, sub_ret>>

\* A clone of the reader is dropped: the strong count of Arc<RemoteTrackDrop>
\* goes down by one. When it reaches 0 the value is about to be dropped;
\* RemoteTrackDrop::drop has not taken the lock yet.
ReaderDrop(g) ==
    /\ readers[g].st = "live"
    /\ readers' = [readers EXCEPT ![g].strong = @ - 1,
                                  ![g].st = IF readers[g].strong = 1 THEN "dropping" ELSE "live"]
    /\ UNCHANGED <<remote_tracks, remote_requested, remote_closed, sub_ret>>

\* RemoteTrackDrop::drop: parent.lock_mut() (None once the state cell is closed),
\* then tracks.remove(&key), whatever entry the key holds now.
RemoteTrackDrop(g) ==
    /\ readers[g].st = "dropping"
    /\ readers' = [readers EXCEPT ![g].st = "dropped"]
    /\ remote_tracks' = IF remote_closed THEN remote_tracks
                        ELSE [remote_tracks EXCEPT ![readers[g].key] = None]
    /\ UNCHANGED <<remote_requested, remote_closed, sub_ret>>

\* RemoteProducer::next: pop the front writer (it is handed to subscriber.subscribe).
RemoteNext ==
    /\ ~remote_closed
    /\ remote_requested # <<>>
    /\ remote_requested' = Tail(remote_requested)
    /\ UNCHANGED <<remote_tracks, readers, remote_closed, sub_ret>>

\* RemoteProducer::run returned and the producer was dropped: the state cell closes.
RemoteProducerDrop ==
    /\ ~remote_closed
    /\ remote_closed' = TRUE
    /\ UNCHANGED <<remote_tracks, remote_requested, readers, sub_ret>>

NextRemote ==
    \/ \E k \in Keys : RemoteSubscribe(k) /\ UNCHANGED othersRemote
    \/ \E g \in ReaderIds : ReaderClone(g) /\ UNCHANGED othersRemote
    \/ \E g \in ReaderIds : ReaderDrop(g) /\ UNCHANGED othersRemote
    \/ \E g \in ReaderIds : RemoteTrackDrop(g) /\ UNCHANGED othersRemote
    \/ RemoteNext /\ UNCHANGED othersRemote
    \/ RemoteProducerDrop /\ UNCHANGED othersRemote

(***************************************************************************)
(*                    Locals: namespace -> TracksReader                    *)
(***************************************************************************)

InitLocals ==
    /\ locals_lookup = [ns \in Namespaces |-> None]
    /\ regs = [r \in RegIds |-> [namespace |-> <<>>, st |-> "unused"]]
    /\ reg_ret = [kind |-> "none", id |-> None]

FreshRegs == {r \in RegIds : regs[r].st = "unused"}

\* The keys of the lookup map.
Registered(lookup) == {ns \in Namespaces : lookup[ns] # None}

\* registered_ns.fields.iter().zip(namespace.fields.iter()).all(|(a, b)| a == b):
\* zip stops at the shorter of the two.
ZipAllEqual(a, b) == \A i \in 1..Min(Len(a), Len(b)) : a[i] = b[i]

\* The mutant of RetrieveMatches: the length guard of line 60 left out.
RetrieveMatchesNoGuard(registered_ns, namespace) == ZipAllEqual(registered_ns, namespace)

\* Lines 60-65 of Locals::retrieve: is registered_ns a prefix of namespace.
RetrieveMatches(registered_ns, namespace) ==
    /\ Len(namespace) >= Len(registered_ns)
    /\ ZipAllEqual(registered_ns, namespace)

\* The loop of Locals::retrieve over the entries in the order `order`, from
\* best_match = None, best_len = 0.
RECURSIVE RetrieveLoop(_, _, _, _, _)
RetrieveLoop(lookup, order, namespace, best_match, best_len) ==
    IF order = <<>> THEN best_match
    ELSE LET registered_ns == Head(order) IN
         IF RetrieveMatches(registered_ns, namespace) /\ Len(registered_ns) > best_len
         THEN RetrieveLoop(lookup, Tail(order), namespace, lookup[registered_ns], Len(registered_ns))
         ELSE RetrieveLoop(lookup, Tail(order), namespace, best_match, best_len)

\* Locals::retrieve: what it may return, over every iteration order of the map.
Retrieve(lookup, namespace) ==
    {RetrieveLoop(lookup, order, namespace, None, 0) : order \in Orders(Registered(lookup))}

\* The mutant of LocalsInsert: HashMap::insert without the Vacant/Occupied match.
LocalsInsertOverwrite(lookup, namespace, tracks) ==
    [err |-> "ok", lookup |-> [lookup EXCEPT ![namespace] = tracks]]

\* The map operation of Locals::register (lines 36-39).
LocalsInsert(lookup, namespace, tracks) ==
    IF lookup[namespace] # None
    THEN [err |-> "Duplicate", lookup |-> lookup]
    ELSE [err |-> "ok", lookup |-> [lookup EXCEPT ![namespace] = tracks]]

\* Locals::register with a new TracksReader for `namespace`.
LocalsRegister(namespace) ==
    /\ FreshRegs # {}
    /\ LET r == CHOOSE i \in FreshRegs : \A j \in FreshRegs : i <= j
           res == LocalsInsert(locals_lookup, namespace, r) IN
        /\ locals_lookup' = res.lookup
        /\ regs' = [regs EXCEPT ![r] = [namespace |-> namespace,
                                        st |-> IF res.err = "ok" THEN "live" ELSE "failed"]]
        /\ reg_ret' = [kind |-> res.err, id |-> r]

\* Registration::drop: lookup.remove(&self.namespace).
RegistrationDrop(r) ==
    /\ regs[r].st = "live"
    /\ locals_lookup' = [locals_lookup EXCEPT ![regs[r].namespace] = None]
    /\ regs' = [regs EXCEPT ![r].st = "dropped"]
    /\ UNCHANGED reg_ret

NextLocals ==
    \/ \E ns \in Namespaces : LocalsRegister(ns) /\ UNCHANGED othersLocals
    \/ \E r \in RegIds : RegistrationDrop(r) /\ UNCHANGED othersLocals

(***************************************************************************)
(*          TrackNamespace path strings and the file coordinator           *)
(***************************************************************************)

\* TrackNamespace::to_utf8_path: "/" and the field, for every field.
RECURSIVE to_utf8_path(_)
to_utf8_path(namespace) ==
    IF namespace = <<>> THEN <<>>
    ELSE <<"/">> \o Head(namespace) \o to_utf8_path(Tail(namespace))

\* str::split('/'): the parts between the separators (one part when there is none).
RECURSIVE SplitPath(_)
SplitPath(path) ==
    IF \A i \in 1..Len(path) : path[i] # "/" THEN <<path>>
    ELSE LET i == CHOOSE n \in 1..Len(path) :
                      path[n] = "/" /\ \A m \in 1..(n - 1) : path[m] # "/" IN
         <<SubSeq(path, 1, i - 1)>> \o SplitPath(SubSeq(path, i + 1, Len(path)))

\* TrackNamespace::from_utf8_path: one field per part of path.split('/').
from_utf8_path(path) == SplitPath(path)

\* CoordinatorData::namespace_key.
namespace_key(namespace) == to_utf8_path(namespace)

\* The keys the coordinator file may hold in this model.
FileKeys == {namespace_key(ns) : ns \in AnnounceNamespaces}

\* The write of FileCoordinator::register_namespace, under the exclusive lock:
\* data.namespaces.insert(key, relay_url).
FileRegister(data, namespace, relay_url) ==
    [data EXCEPT ![namespace_key(namespace)] = relay_url]

\* unregister_namespace_sync, under the exclusive lock: data.namespaces.remove(&key).
unregister_namespace_sync(data, namespace) ==
    [data EXCEPT ![namespace_key(namespace)] = NoEntry]

\* The prefix loop of FileCoordinator::lookup (lines 213-230) over the keys in
\* the order `order`; best_match is <<>> for None and <<key>> for Some(key).
RECURSIVE LookupLoop(_, _, _)
LookupLoop(order, key, best_match) ==
    IF order = <<>> THEN best_match
    ELSE LET registered_key == Head(order)
             is_prefix == ZipAllEqual(SplitPath(registered_key), SplitPath(key)) IN
         IF best_match # <<>> /\ is_prefix /\ Len(best_match[1]) < Len(registered_key)
         THEN LookupLoop(Tail(order), key, <<registered_key>>)
         ELSE IF best_match = <<>> /\ is_prefix
         THEN LookupLoop(Tail(order), key, <<registered_key>>)
         ELSE LookupLoop(Tail(order), key, best_match)

NamespaceNotFound == [err |-> "NamespaceNotFound"]

\* FileCoordinator::lookup: what it may return, over every iteration order of
\* the map: the exact entry, else the best prefix match, else NamespaceNotFound.
FileLookup(data, namespace) ==
    LET key == namespace_key(namespace)
        keys == {k \in DOMAIN data : data[k] # NoEntry} IN
    IF key \in DOMAIN data /\ data[key] # NoEntry
    THEN {[namespace |-> namespace, url |-> data[key]]}
    ELSE {LET m == LookupLoop(order, key, <<>>) IN
          IF m = <<>> THEN NamespaceNotFound
          ELSE [namespace |-> from_utf8_path(m[1]), url |-> data[m[1]]] : order \in Orders(keys)}

(***************************************************************************)
(*     Consumer::run / Consumer::serve of every publisher session          *)
(***************************************************************************)

InitAnnounce ==
    /\ ann = [p \in Publishers |-> [namespace |-> <<>>, pc |-> "idle", err |-> "none", ok |-> FALSE]]
    /\ consumer_running = [p \in Publishers |-> TRUE]
    /\ rejected_before = [p \in Publishers |-> FALSE]
    /\ coord_file = [k \in FileKeys |-> NoEntry]
    /\ other_handles = {}

\* The mutant of ConsumerRunAfterServe: `this.serve(announce).await?`.
ConsumerRunPropagates(res) == res = "ok"

\* Consumer::run, lines 51-53: an error of serve is logged and the loop goes on.
ConsumerRunAfterServe(res) == TRUE

\* Consumer::run takes the next announce off the announced queue and pushes the
\* task that serves it (lines 43-55); serve builds the Tracks pair (line 67).
AnnounceArrives(p, namespace) ==
    /\ consumer_running[p]
    /\ ann[p].pc \in {"idle", "rejected", "ended"}
    /\ ann' = [ann EXCEPT ![p] = [namespace |-> namespace, pc |-> "start",
                                  err |-> "none", ok |-> FALSE]]
    /\ rejected_before' = [rejected_before EXCEPT ![p] = @ \/ ann[p].pc = "rejected"]
    /\ UNCHANGED <<consumer_running, coord_file, other_handles, locals_lookup>>

\* Consumer::serve, lines 75-78: coordinator.register_namespace succeeds.
ServeCoordRegister(p) ==
    /\ ann[p].pc = "start"
    /\ coord_file' = FileRegister(coord_file, ann[p].namespace, ThisRelay)
    /\ ann' = [ann EXCEPT ![p].pc = "coord_registered"]
    /\ UNCHANGED <<consumer_running, rejected_before, other_handles, locals_lookup>>

\* Consumer::serve, line 78: register_namespace fails (an I/O error) and `?` returns.
ServeCoordFails(p) ==
    /\ ann[p].pc = "start"
    /\ ann' = [ann EXCEPT ![p].pc = "rejected", ![p].err = "Coordinator"]
    /\ consumer_running' = [consumer_running EXCEPT ![p] = ConsumerRunAfterServe("err")]
    /\ UNCHANGED <<rejected_before, coord_file, other_handles, locals_lookup>>

\* Consumer::serve, lines 81-84: locals.register, then announce.ok(). On
\* Duplicate `?` returns and _namespace_registration is dropped, which runs
\* unregister_namespace_sync.
ServeLocalsRegister(p) ==
    /\ ann[p].pc = "coord_registered"
    /\ LET res == LocalsInsert(locals_lookup, ann[p].namespace, p) IN
        IF res.err = "ok"
        THEN /\ locals_lookup' = res.lookup
             /\ ann' = [ann EXCEPT ![p].pc = "serving", ![p].ok = TRUE]
             /\ UNCHANGED <<coord_file, consumer_running>>
        ELSE /\ coord_file' = unregister_namespace_sync(coord_file, ann[p].namespace)
             /\ ann' = [ann EXCEPT ![p].pc = "rejected", ![p].err = res.err]
             /\ consumer_running' = [consumer_running EXCEPT ![p] = ConsumerRunAfterServe("err")]
             /\ UNCHANGED locals_lookup
    /\ UNCHANGED <<rejected_before, other_handles>>

\* Consumer::serve returns from its loop (lines 101-126: the announce was closed,
\* or a task failed): _register is dropped, then _namespace_registration.
AnnounceEnds(p) ==
    /\ ann[p].pc = "serving"
    /\ locals_lookup' = [locals_lookup EXCEPT ![ann[p].namespace] = None]
    /\ coord_file' = unregister_namespace_sync(coord_file, ann[p].namespace)
    /\ ann' = [ann EXCEPT ![p].pc = "ended"]
    /\ consumer_running' = [consumer_running EXCEPT ![p] = ConsumerRunAfterServe("err")]
    /\ UNCHANGED <<rejected_before, other_handles>>

\* A second relay sharing the coordinator file registers a namespace
\* (FileCoordinator::register_namespace with its own relay_url).
OtherRelayRegister(namespace) ==
    /\ namespace \notin other_handles
    /\ coord_file' = FileRegister(coord_file, namespace, OtherRelay)
    /\ other_handles' = other_handles \cup {namespace}
    /\ UNCHANGED <<ann, consumer_running, rejected_before, locals_lookup>>

\* The second relay drops its handle (NamespaceUnregisterHandle::drop).
OtherRelayDrop(namespace) ==
    /\ namespace \in other_handles
    /\ coord_file' = unregister_namespace_sync(coord_file, namespace)
    /\ other_handles' = other_handles \ {namespace}
    /\ UNCHANGED <<ann, consumer_running, rejected_before, locals_lookup>>

NextAnnounce ==
    \/ \E p \in Publishers, ns \in AnnounceNamespaces : AnnounceArrives(p, ns) /\ UNCHANGED othersAnnounce
    \/ \E p \in Publishers : ServeCoordRegister(p) /\ UNCHANGED othersAnnounce
    \/ \E p \in Publishers : ServeCoordFails(p) /\ UNCHANGED othersAnnounce
    \/ \E p \in Publishers : ServeLocalsRegister(p) /\ UNCHANGED othersAnnounce
    \/ \E p \in Publishers : AnnounceEnds(p) /\ UNCHANGED othersAnnounce
    \/ \E ns \in AnnounceNamespaces : OtherRelayRegister(ns) /\ UNCHANGED othersAnnounce
    \/ \E ns \in AnnounceNamespaces : OtherRelayDrop(ns) /\ UNCHANGED othersAnnounce

(***************************************************************************)
(*        Subscriber: subscribes, the alias map and recv_stream            *)
(***************************************************************************)

InitSubscriber ==
    /\ subscribes = [i \in SubIds |-> [st |-> "none", track_alias |-> None, err |-> "none"]]
    /\ subscribe_alias_map = [a \in Aliases |-> None]
    /\ streams = [s \in StreamIds |->
                    [pc |-> "idle", track_alias |-> None, notified |-> "none",
                     res |-> "none", saw_ok |-> FALSE]]

\* Subscriber::remove_subscribe: the maps afterwards, and whether a subscribe was removed.
remove_subscribe(subs, alias_map, id) ==
    IF subs[id].st = "active"
    THEN [found |-> TRUE,
          subscribes |-> [subs EXCEPT ![id].st = "removed", ![id].track_alias = None],
          alias_map |-> IF subs[id].track_alias # None
                        THEN [alias_map EXCEPT ![subs[id].track_alias] = None]
                        ELSE alias_map]
    ELSE [found |-> FALSE, subscribes |-> subs, alias_map |-> alias_map]

\* SubscribeRecv::ok: the subscribe is marked OK with its track alias; a
\* subscription has at most one track alias, the one of its first SUBSCRIBE_OK.
SubscribeRecvOk(sub, track_alias) ==
    IF sub.track_alias = None THEN [sub EXCEPT !.track_alias = track_alias] ELSE sub

\* remove_subscribe(id) followed by subscribe.error(err) when a subscribe was removed.
RemoveAndFail(subs, alias_map, id, err) ==
    LET r == remove_subscribe(subs, alias_map, id) IN
    [subscribes |-> IF r.found THEN [r.subscribes EXCEPT ![id].err = err] ELSE r.subscribes,
     alias_map |-> r.alias_map]

\* recv_stream line 361: `if let Err(SessionError::Serve(err)) = &res`.
\* NotFound and the serve layer's errors are SessionError::Serve(_);
\* SessionError::WrongSize is a variant of its own.
IsServeError(err) == err \in {"NotFound", "Serve"}

\* recv_stream lines 360-376, once recv_stream_inner has returned Err(err).
RecvStreamOnError(subs, alias_map, track_alias, err) ==
    IF IsServeError(err) /\ alias_map[track_alias] # None
    THEN RemoveAndFail(subs, alias_map, alias_map[track_alias], err)
    ELSE [subscribes |-> subs, alias_map |-> alias_map]

\* Subscriber::subscribe: the next request id is inserted into subscribes.
Subscribe(i) ==
    /\ subscribes[i].st = "none"
    /\ \A j \in SubIds : j < i => subscribes[j].st # "none"
    /\ subscribes' = [subscribes EXCEPT ![i].st = "active"]
    /\ UNCHANGED <<subscribe_alias_map, streams>>

\* Subscriber::recv_subscribe_ok for SUBSCRIBE_OK {id, track_alias}.
recv_subscribe_ok(id, track_alias) ==
    IF subscribes[id].st = "active"
    THEN /\ subscribe_alias_map' = [subscribe_alias_map EXCEPT ![track_alias] = id]
         \* notify_waiters: every Notified future that exists is completed
         /\ streams' = [s \in StreamIds |->
               [streams[s] EXCEPT
                   !.notified = IF @ = "armed" THEN "fired" ELSE @,
                   !.saw_ok = @ \/ (/\ subscribes[id].track_alias = None
                                    /\ streams[s].track_alias = track_alias
                                    /\ streams[s].pc = "parked")]]
         /\ subscribes' = [subscribes EXCEPT ![id] = SubscribeRecvOk(@, track_alias)]
    ELSE UNCHANGED <<subscribes, subscribe_alias_map, streams>>

\* Subscriber::recv_subscribe_error.
recv_subscribe_error(id) ==
    LET r == RemoveAndFail(subscribes, subscribe_alias_map, id, "Closed") IN
    /\ subscribes' = r.subscribes
    /\ subscribe_alias_map' = r.alias_map
    /\ UNCHANGED streams

\* Subscriber::recv_publish_done.
recv_publish_done(id) ==
    LET r == RemoveAndFail(subscribes, subscribe_alias_map, id, "Closed") IN
    /\ subscribes' = r.subscribes
    /\ subscribe_alias_map' = r.alias_map
    /\ UNCHANGED streams

\* recv_stream_inner returns Err(err) and recv_stream handles it.
StreamFails(s, err) ==
    LET r == RecvStreamOnError(subscribes, subscribe_alias_map, streams[s].track_alias, err) IN
    /\ subscribes' = r.subscribes
    /\ subscribe_alias_map' = r.alias_map
    /\ streams' = [streams EXCEPT ![s].pc = "done", ![s].res = err, ![s].notified = "none",
                                   ![s].track_alias = None]

\* recv_stream: the header of a subgroup stream was decoded (lines 322-360).
StreamOpen(s, track_alias) ==
    /\ streams[s].pc = "idle"
    /\ \A t \in StreamIds : t < s => streams[t].pc # "idle"
    /\ streams' = [streams EXCEPT ![s].pc = "register", ![s].track_alias = track_alias]
    /\ UNCHANGED <<subscribes, subscribe_alias_map>>

\* get_subscribe_id_by_alias line 300: notified() is created before the map is read.
StreamNotified(s) ==
    /\ streams[s].pc = "register"
    /\ streams' = [streams EXCEPT ![s].pc = "check", ![s].notified = "armed"]
    /\ UNCHANGED <<subscribes, subscribe_alias_map>>

\* get_subscribe_id_by_alias lines 303-314, and on a hit recv_stream_inner
\* lines 404-416: the subscribe is looked up by id and the writer is created.
StreamCheckMap(s) ==
    /\ streams[s].pc = "check"
    /\ LET id == subscribe_alias_map[streams[s].track_alias] IN
        IF id = None
        THEN /\ streams' = [streams EXCEPT ![s].pc = "parked"]
             /\ UNCHANGED <<subscribes, subscribe_alias_map>>
        ELSE IF subscribes[id].st # "active"
        THEN StreamFails(s, "NotFound")
        ELSE /\ streams' = [streams EXCEPT ![s].pc = "reading",
                                           ![s].notified = "none", ![s].saw_ok = FALSE]
             /\ UNCHANGED <<subscribes, subscribe_alias_map>>

\* notified.await completes and the loop of get_subscribe_id_by_alias starts over.
StreamWake(s) ==
    /\ streams[s].pc = "parked"
    /\ streams[s].notified = "fired"
    /\ streams' = [streams EXCEPT ![s].pc = "register", ![s].notified = "none"]
    /\ UNCHANGED <<subscribes, subscribe_alias_map>>

\* tokio::time::timeout elapses while notified.await is pending (lines 297-318):
\* None, and recv_stream_inner returns Serve(NotFound) (lines 423-428).
StreamTimeout(s) ==
    /\ streams[s].pc = "parked"
    /\ streams[s].notified = "armed"
    /\ StreamFails(s, "NotFound")

\* recv_subgroup, one turn of its loop (lines 464-625): an object with
\* payload_length, of which the stream carries `available` bytes before it ends.
StreamReadObject(s, payload_length, available) ==
    /\ streams[s].pc = "reading"
    /\ IF available < payload_length
       THEN StreamFails(s, "WrongSize")
       ELSE UNCHANGED <<subscribes, subscribe_alias_map, streams>>

\* recv_subgroup: reader.done() is true (line 464) and Ok(()) is returned.
StreamFin(s) ==
    /\ streams[s].pc = "reading"
    /\ streams' = [streams EXCEPT ![s].pc = "done", ![s].res = "ok", ![s].track_alias = None]
    /\ UNCHANGED <<subscribes, subscribe_alias_map>>

\* The serve layer refuses the object (`?` of lines 587 and 615): a Serve error.
StreamServeError(s) ==
    /\ streams[s].pc = "reading"
    /\ StreamFails(s, "Serve")

\* Session::run is being polled: run_recv, run_streams and run_datagrams make steps.
SessionRunning == session_res = "running"

\* run_datagrams, one turn of its loop (mod.rs lines 383-390), with
\* Subscriber::recv_datagram for a datagram of track_alias: a datagram whose
\* alias resolves to an active subscribe is handed to subscribe.datagram, whose
\* result is serve_res, and `?` returns a Serve error from recv_datagram and from
\* run_datagrams; any other datagram is discarded.
RecvDatagram(track_alias, serve_res) ==
    LET id == subscribe_alias_map[track_alias] IN
    /\ session_res' = IF id # None /\ subscribes[id].st = "active" /\ serve_res # "ok"
                      THEN serve_res
                      ELSE session_res
    /\ UNCHANGED <<subscribes, subscribe_alias_map, streams>>
    /\ UNCHANGED <<varsRequests, varsQueue, task_steps>>

NextSubscriber ==
    \/ \E i \in SubIds : Subscribe(i) /\ UNCHANGED <<othersSubscriber, varsSession>>
    \/ \E i \in SubIds, a \in Aliases :
          SessionRunning /\ recv_subscribe_ok(i, a) /\ UNCHANGED <<othersSubscriber, varsSession>>
    \/ \E i \in SubIds :
          SessionRunning /\ recv_subscribe_error(i) /\ UNCHANGED <<othersSubscriber, varsSession>>
    \/ \E i \in SubIds :
          SessionRunning /\ recv_publish_done(i) /\ UNCHANGED <<othersSubscriber, varsSession>>
    \/ \E s \in StreamIds, a \in Aliases :
          SessionRunning /\ StreamOpen(s, a) /\ UNCHANGED <<othersSubscriber, varsSession>>
    \/ \E s \in StreamIds :
          SessionRunning /\ StreamNotified(s) /\ UNCHANGED <<othersSubscriber, varsSession>>
    \/ \E s \in StreamIds :
          SessionRunning /\ StreamCheckMap(s) /\ UNCHANGED <<othersSubscriber, varsSession>>
    \/ \E s \in StreamIds :
          SessionRunning /\ StreamWake(s) /\ UNCHANGED <<othersSubscriber, varsSession>>
    \/ \E s \in StreamIds :
          SessionRunning /\ StreamTimeout(s) /\ UNCHANGED <<othersSubscriber, varsSession>>
    \/ \E s \in StreamIds, len \in 0..MaxPayload, got \in 0..MaxPayload :
          /\ got <= len
          /\ SessionRunning /\ StreamReadObject(s, len, got)
          /\ UNCHANGED <<othersSubscriber, varsSession>>
    \/ \E s \in StreamIds :
          SessionRunning /\ StreamFin(s) /\ UNCHANGED <<othersSubscriber, varsSession>>
    \/ \E s \in StreamIds :
          SessionRunning /\ StreamServeError(s) /\ UNCHANGED <<othersSubscriber, varsSession>>
    \/ \E a \in Aliases, r \in {"ok", "Serve"} :
          SessionRunning /\ RecvDatagram(a, r) /\ UNCHANGED othersSubscriber

(***************************************************************************)
(*                               Session                                   *)
(***************************************************************************)

Callers == 1..NumCallers
Tasks == {"run_recv", "run_send", "run_streams", "run_datagrams"}

\* Session::new(.., first_requestid, ..): the counter starts at first_requestid,
\* the queue is empty and run has not been polled.
InitSession(first) ==
    /\ session_res = "running"
    /\ first_requestid = first
    /\ next_requestid = first
    /\ issued = <<>>
    /\ held = [c \in Callers |-> <<>>]
    /\ outgoing = <<>>
    /\ pushed = <<>>
    /\ written = <<>>
    /\ task_steps = [t \in Tasks |-> 0]

\* AtomicU64::fetch_add(val): returns the previous value and stores the sum.
\* MaxRequests keeps the counter far below 2^64, where the addition wraps.
fetch_add_returns_new(cur, val) == [ret |-> cur + val, new |-> cur + val]

fetch_add(cur, val) == [ret |-> cur, new |-> cur + val]

\* get_next_request_id on a clone of the Publisher or Subscriber handle.
GetNextRequestId(c) ==
    LET r == fetch_add(next_requestid, 2) IN
    /\ held[c] = <<>>
    /\ Len(issued) < MaxRequests
    /\ next_requestid' = r.new
    /\ issued' = Append(issued, r.ret)
    /\ held' = [held EXCEPT ![c] = <<r.ret>>]
    /\ UNCHANGED <<first_requestid, session_res, varsQueue, task_steps>>

\* send_message: the request that carries the id held by the caller is pushed on
\* the outbound queue; the push fails, and the message is dropped, once the
\* Session that owns the reading half has been consumed by run and run returned.
SendMessage(c) ==
    /\ held[c] # <<>>
    /\ held' = [held EXCEPT ![c] = <<>>]
    /\ IF SessionRunning
       THEN /\ outgoing' = Append(outgoing, held[c][1])
            /\ pushed' = Append(pushed, held[c][1])
       ELSE UNCHANGED <<outgoing, pushed>>
    /\ UNCHANGED <<first_requestid, next_requestid, issued, written, session_res, task_steps>>

\* run_send, one turn of the loop, writing the newest message of the queue.
RunSendReorders(encode_ok) ==
    /\ SessionRunning
    /\ outgoing # <<>>
    /\ outgoing' = SubSeq(outgoing, 1, Len(outgoing) - 1)
    /\ written' = Append(written, outgoing[Len(outgoing)])
    /\ UNCHANGED <<session_res, varsRequests, pushed, task_steps>>

\* run_send, one turn of the loop: outgoing.pop() yields the oldest message and
\* sender.encode writes it; an encode error ends run_send with that error.
RunSend(encode_ok) ==
    /\ SessionRunning
    /\ outgoing # <<>>
    /\ outgoing' = Tail(outgoing)
    /\ IF encode_ok
       THEN /\ written' = Append(written, Head(outgoing))
            /\ UNCHANGED session_res
       ELSE /\ session_res' = "Write"
            /\ UNCHANGED written
    /\ UNCHANGED <<varsRequests, pushed, task_steps>>

\* What each task of Session::run can finish with: run_send returns Ok(()) when
\* the queue is closed and an error when a write fails; the other three loop
\* until a read, a handler or the connection fails.
TaskResults(t) ==
    IF t = "run_send" THEN {"Ok", "Write"}
    ELSE IF t = "run_recv" THEN {"Read", "RoleViolation", "Unimplemented"}
    ELSE IF t = "run_streams" THEN {"WebTransport", "RoleViolation"}
    ELSE {"WebTransport", "Serve", "RoleViolation"}

\* Every task keeps being polled, whether or not another one has finished.
TaskPolledForever == TRUE

\* select! in Session::run: a task is polled only while no task has finished.
TaskPolled == SessionRunning

\* One turn of the loop of task t.
TaskStep(t) ==
    /\ TaskPolled
    /\ task_steps[t] < MaxSteps
    /\ task_steps' = [task_steps EXCEPT ![t] = @ + 1]
    /\ UNCHANGED <<session_res, varsRequests, varsQueue>>

\* Task t finishes with res: select! completes with its branch and run returns res.
TaskFinish(t, res) ==
    /\ TaskPolled
    /\ session_res' = res
    /\ UNCHANGED <<varsRequests, varsQueue, task_steps>>

othersSession ==
    <<varsRemotes, varsRemote, varsLocals, varsAnnounce, varsSubscriber, varsSetup, varsProducer, varsApi,
      varsSubgroup, varsLate>>

NextSession ==
    \/ \E c \in Callers : GetNextRequestId(c) /\ UNCHANGED othersSession
    \/ \E c \in Callers : SendMessage(c) /\ UNCHANGED othersSession
    \/ \E encode_ok \in BOOLEAN : RunSend(encode_ok) /\ UNCHANGED othersSession
    \/ \E t \in Tasks \ {"run_send"} : \E res \in TaskResults(t) :
          TaskFinish(t, res) /\ UNCHANGED othersSession

NextRun ==
    \/ \E t \in Tasks : TaskStep(t) /\ UNCHANGED othersSession
    \/ \E t \in Tasks : \E res \in TaskResults(t) : TaskFinish(t, res) /\ UNCHANGED othersSession

(***************************************************************************)
(*                 SETUP exchange: connect and accept                      *)
(***************************************************************************)

\* setup::Version::DRAFT_14 (0xff00000e), written as its draft number; a peer
\* may speak the drafts next to it.
DRAFT_14 == 14
Versions == {13, 14, 15}

\* The version lists a CLIENT_SETUP can carry: any order, with duplicates.
VersionLists == UNION {[1..n -> Versions] : n \in 0..MaxVersions}

InitSetup ==
    /\ client_setup = [sent |-> FALSE, by |-> "none", versions |-> <<>>]
    /\ server_setup = [sent |-> FALSE, closed |-> FALSE, version |-> None]
    /\ connect_res = "none"
    /\ accept_res = "none"
    /\ lc_call = [called |-> FALSE, a |-> <<>>, b |-> <<>>, ret |-> <<>>]

\* slice::contains
Contains(b, x) == \E i \in 1..Len(b) : b[i] = x

\* Iterator::max over a sequence: <<>> for None, <<v>> for Some(v).
RECURSIVE IterMax(_)
IterMax(xs) ==
    IF xs = <<>> THEN <<>>
    ELSE LET rest == IterMax(Tail(xs)) IN
         IF rest = <<>> \/ Head(xs) > rest[1] THEN <<Head(xs)>> ELSE rest

\* The first common item instead of the largest one.
largest_common_first(a, b) ==
    LET common == SelectSeq(a, LAMBDA x : Contains(b, x)) IN
    IF common = <<>> THEN <<>> ELSE <<Head(common)>>

\* Session::largest_common: a.iter().filter(|x| b.contains(x)).cloned().max()
largest_common(a, b) ==
    IterMax(SelectSeq(a, LAMBDA x : Contains(b, x)))

\* A call of largest_common on any two lists.
LargestCommonCall(a, b) ==
    /\ ~lc_call.called
    /\ lc_call' = [called |-> TRUE, a |-> a, b |-> b, ret |-> largest_common(a, b)]
    /\ UNCHANGED <<client_setup, server_setup, connect_res, accept_res>>

\* Session::connect up to sender.encode(&client): CLIENT_SETUP with [DRAFT_14].
ConnectSendSetup ==
    /\ ~client_setup.sent
    /\ client_setup' = [sent |-> TRUE, by |-> "connect", versions |-> <<DRAFT_14>>]
    /\ UNCHANGED <<server_setup, connect_res, accept_res, lc_call>>

\* A peer's client sends a CLIENT_SETUP of its own.
PeerClientSetup(versions) ==
    /\ ~client_setup.sent
    /\ client_setup' = [sent |-> TRUE, by |-> "peer", versions |-> versions]
    /\ UNCHANGED <<server_setup, connect_res, accept_res, lc_call>>

\* Session::accept from recver.decode() of the CLIENT_SETUP to its return: if
\* largest_common finds a version, SERVER_SETUP with it is written and the
\* Session is made; otherwise accept returns the Version error and the control
\* stream is dropped with it.
Accept ==
    LET server_versions == <<DRAFT_14>>
        largest_common_version == largest_common(server_versions, client_setup.versions) IN
    /\ client_setup.sent
    /\ ~server_setup.sent /\ ~server_setup.closed
    /\ IF largest_common_version # <<>>
       THEN /\ server_setup' = [server_setup EXCEPT !.sent = TRUE,
                                                     !.version = largest_common_version[1]]
            /\ accept_res' = "Ok"
       ELSE /\ server_setup' = [server_setup EXCEPT !.closed = TRUE]
            /\ accept_res' = "Version"
    /\ UNCHANGED <<client_setup, connect_res, lc_call>>

\* A peer's server answers the CLIENT_SETUP of connect with a version it chose.
PeerServerSetup(version) ==
    /\ client_setup.sent /\ client_setup.by = "connect"
    /\ ~server_setup.sent /\ ~server_setup.closed
    /\ server_setup' = [server_setup EXCEPT !.sent = TRUE, !.version = version]
    /\ UNCHANGED <<client_setup, connect_res, accept_res, lc_call>>

\* A peer's server finds no version in common and closes without a SERVER_SETUP.
PeerServerCloses ==
    /\ client_setup.sent /\ client_setup.by = "connect"
    /\ ~server_setup.sent /\ ~server_setup.closed
    /\ server_setup' = [server_setup EXCEPT !.closed = TRUE]
    /\ UNCHANGED <<client_setup, connect_res, accept_res, lc_call>>

\* Session::connect from recver.decode() to its return: a decoded SERVER_SETUP
\* is logged and the Session is made, whatever version it carries; a stream
\* that ends without one fails the decode, and `?` returns the reader's error.
ConnectRecvSetup ==
    /\ client_setup.by = "connect"
    /\ connect_res = "none"
    /\ server_setup.sent \/ server_setup.closed
    /\ connect_res' = IF server_setup.sent THEN "Ok" ELSE "Read"
    /\ UNCHANGED <<client_setup, server_setup, accept_res, lc_call>>

othersSetup ==
    <<varsRemotes, varsRemote, varsLocals, varsAnnounce, varsSubscriber, varsSession, varsProducer, varsApi,
      varsSubgroup, varsLate>>

NextSetup ==
    \/ \E a, b \in VersionLists : LargestCommonCall(a, b) /\ UNCHANGED othersSetup
    \/ ConnectSendSetup /\ UNCHANGED othersSetup
    \/ \E versions \in VersionLists : PeerClientSetup(versions) /\ UNCHANGED othersSetup
    \/ Accept /\ UNCHANGED othersSetup
    \/ \E version \in Versions : PeerServerSetup(version) /\ UNCHANGED othersSetup
    \/ PeerServerCloses /\ UNCHANGED othersSetup
    \/ ConnectRecvSetup /\ UNCHANGED othersSetup

(***************************************************************************)
(*                     Producer::serve_subscribe                           *)
(***************************************************************************)

InitProducer ==
    serve_ret = [kind |-> "none", reader |-> None]

\* The namespaces of the SUBSCRIBEs: registered ones, extensions of them and
\* one that no announce covers.
SubscribeNamespaces == AnnounceNamespaces \cup {<<<<"b">>>>, <<<<"a">>, <<"a">>>>}

\* The origin the coordinator names for them and the track they ask for.
SubscribeOrigins == {1}
SubscribeKeys == {1}

\* Producer::serve_subscribe for SUBSCRIBE (namespace, track k); serve_ret is
\* what it leaves behind: kind "local" (subscribed.serve on the reader of a
\* local registration), "remote" (subscribed.serve on a RemoteTrackReader) or
\* "NotFound" (subscribed.close(NotFound)).
\*   local_serves       : local.subscribe(namespace, name) returns Some(track)
\*   remotes_configured : self.remotes is Some
\*   lookup_ok, origin  : coordinator.lookup inside route returns origin, or fails
ServeSubscribe(namespace, k, local_serves, remotes_configured, lookup_ok, origin) ==
    /\ \E local \in Retrieve(locals_lookup, namespace) :
          IF local # None /\ local_serves
          THEN /\ serve_ret' = [kind |-> "local", reader |-> local]
               /\ UNCHANGED <<varsRemotes, varsRemote>>
          ELSE IF remotes_configured /\ lookup_ok
          THEN /\ Route(origin)
               /\ RemoteSubscribe(k)
               /\ serve_ret' = IF sub_ret'.kind = "closed"
                               THEN [kind |-> "NotFound", reader |-> None]
                               ELSE [kind |-> "remote", reader |-> sub_ret'.reader]
          ELSE IF remotes_configured
          THEN /\ RouteLookupFails
               /\ serve_ret' = [kind |-> "NotFound", reader |-> None]
               /\ UNCHANGED varsRemote
          ELSE /\ serve_ret' = [kind |-> "NotFound", reader |-> None]
               /\ UNCHANGED <<varsRemotes, varsRemote>>
    /\ UNCHANGED varsLocals

\* Producer::serve_track_status for TRACK_STATUS (namespace, track k): respond_ok
\* with the reader of the local registration that retrieve returns, or
\* respond_error(4, "Track not found"); the part that would ask the remotes is
\* commented out.
\*   local_serves : get_track_reader(namespace, name) returns Some(track)
ServeTrackStatus(namespace, k, local_serves) ==
    /\ \E local \in Retrieve(locals_lookup, namespace) :
          IF local # None /\ local_serves
          THEN serve_ret' = [kind |-> "status_ok", reader |-> local]
          ELSE serve_ret' = [kind |-> "status_error_4", reader |-> None]
    /\ UNCHANGED <<varsRemotes, varsRemote, varsLocals>>

othersProducer == <<varsAnnounce, varsSubscriber, varsSession, varsSetup, varsApi, varsSubgroup, varsLate>>

NextProducer ==
    \/ \E namespace \in AnnounceNamespaces :
          LocalsRegister(namespace) /\ UNCHANGED <<varsRemotes, varsRemote, varsProducer, othersProducer>>
    \/ \E r \in RegIds :
          RegistrationDrop(r) /\ UNCHANGED <<varsRemotes, varsRemote, varsProducer, othersProducer>>
    \/ RemoteProducerDrop /\ UNCHANGED <<varsRemotes, varsLocals, varsProducer, othersProducer>>
    \/ \E namespace \in SubscribeNamespaces, k \in SubscribeKeys,
          local_serves, remotes_configured, lookup_ok \in BOOLEAN, origin \in SubscribeOrigins :
          /\ ServeSubscribe(namespace, k, local_serves, remotes_configured, lookup_ok, origin)
          /\ UNCHANGED othersProducer
    \/ \E namespace \in SubscribeNamespaces, k \in SubscribeKeys, local_serves \in BOOLEAN :
          ServeTrackStatus(namespace, k, local_serves) /\ UNCHANGED othersProducer

(***************************************************************************)
(*        Consumer::serve with either coordinator; the ApiCoordinator      *)
(***************************************************************************)

\* The publishers whose announces one relay serves side by side.
ServePublishers == {1, 2}

NoTasks == [refresh |-> "none", shutdown_tx |-> FALSE, unregister |-> "none"]

InitApi(kind) ==
    /\ coordinator_kind = kind
    /\ api_registry = [k \in FileKeys |-> NoEntry]
    /\ api = [p \in Publishers |-> NoTasks]

\* A handle that is never dropped (leaked).
HandleLeaked(tasks) == tasks

\* A handle that is dropped without signalling the refresh task.
DropWithoutSignal(tasks) == [tasks EXCEPT !.unregister = "pending"]

\* NamespaceUnregisterHandle::drop of the ApiCoordinator: the shutdown signal
\* is sent to the refresh task and a task that unregisters is spawned.
NamespaceUnregisterHandleDrop(tasks) ==
    [tasks EXCEPT !.shutdown_tx = TRUE, !.unregister = "pending"]

\* Consumer::serve, lines 75-78, with ApiCoordinator::register_namespace:
\* set_origin, then the refresh task is started and the handle returned.
ApiServeCoordRegister(p) ==
    /\ coordinator_kind = "api"
    /\ ann[p].pc = "start"
    /\ api_registry' = [api_registry EXCEPT ![to_utf8_path(ann[p].namespace)] = ThisRelay]
    /\ api' = [api EXCEPT ![p] = [refresh |-> "idle", shutdown_tx |-> FALSE,
                                  unregister |-> "none"]]
    /\ ann' = [ann EXCEPT ![p].pc = "coord_registered"]
    /\ UNCHANGED <<consumer_running, rejected_before, coord_file, other_handles, locals_lookup,
                   coordinator_kind>>

\* Consumer::serve, lines 81-84, with the ApiCoordinator's handle: on Duplicate
\* `?` returns and _namespace_registration is dropped.
ApiServeLocalsRegister(p) ==
    /\ coordinator_kind = "api"
    /\ ann[p].pc = "coord_registered"
    /\ LET res == LocalsInsert(locals_lookup, ann[p].namespace, p) IN
        IF res.err = "ok"
        THEN /\ locals_lookup' = res.lookup
             /\ ann' = [ann EXCEPT ![p].pc = "serving", ![p].ok = TRUE]
             /\ UNCHANGED <<api, consumer_running>>
        ELSE /\ api' = [api EXCEPT ![p] = NamespaceUnregisterHandleDrop(@)]
             /\ ann' = [ann EXCEPT ![p].pc = "rejected", ![p].err = res.err]
             /\ consumer_running' = [consumer_running EXCEPT ![p] = ConsumerRunAfterServe("err")]
             /\ UNCHANGED locals_lookup
    /\ UNCHANGED <<rejected_before, coord_file, other_handles, coordinator_kind, api_registry>>

\* Consumer::serve returns from its loop with the ApiCoordinator's handle:
\* _register is dropped, then _namespace_registration.
ApiAnnounceEnds(p) ==
    /\ coordinator_kind = "api"
    /\ ann[p].pc = "serving"
    /\ locals_lookup' = [locals_lookup EXCEPT ![ann[p].namespace] = None]
    /\ api' = [api EXCEPT ![p] = NamespaceUnregisterHandleDrop(@)]
    /\ ann' = [ann EXCEPT ![p].pc = "ended"]
    /\ consumer_running' = [consumer_running EXCEPT ![p] = ConsumerRunAfterServe("err")]
    /\ UNCHANGED <<rejected_before, coord_file, other_handles, coordinator_kind, api_registry>>

\* The refresh task: interval.tick() fires and patch_origin is started.
RefreshTick(p) ==
    /\ api[p].refresh = "idle"
    /\ api' = [api EXCEPT ![p].refresh = "patching"]
    /\ UNCHANGED <<varsAnnounce, locals_lookup, coordinator_kind, api_registry>>

\* The refresh task: patch_origin returns (the result is only logged) and the
\* loop is back at its select!.
RefreshPatched(p) ==
    /\ api[p].refresh = "patching"
    /\ api' = [api EXCEPT ![p].refresh = "idle"]
    /\ UNCHANGED <<varsAnnounce, locals_lookup, coordinator_kind, api_registry>>

\* The refresh task: select! takes the shutdown_rx branch and the loop breaks.
RefreshShutdown(p) ==
    /\ api[p].refresh = "idle"
    /\ api[p].shutdown_tx
    /\ api' = [api EXCEPT ![p].refresh = "stopped"]
    /\ UNCHANGED <<varsAnnounce, locals_lookup, coordinator_kind, api_registry>>

\* The task spawned by the drop: unregister_namespace_async, delete_origin.
UnregisterAsync(p) ==
    /\ api[p].unregister = "pending"
    /\ api_registry' = [api_registry EXCEPT ![to_utf8_path(ann[p].namespace)] = NoEntry]
    /\ api' = [api EXCEPT ![p].unregister = "done"]
    /\ UNCHANGED <<varsAnnounce, locals_lookup, coordinator_kind>>

\* No background task of an earlier registration of p is still at work.
TasksQuiet(p) ==
    /\ api[p].refresh \in {"none", "stopped"}
    /\ api[p].unregister \in {"none", "done"}

othersServe ==
    <<varsRemotes, varsRemote, regs, reg_ret, varsSubscriber, varsSession, varsSetup, varsProducer,
      varsSubgroup, varsLate>>

NextServe ==
    \/ \E p \in ServePublishers, ns \in AnnounceNamespaces :
          TasksQuiet(p) /\ AnnounceArrives(p, ns) /\ UNCHANGED <<othersServe, varsApi>>
    \/ \E p \in ServePublishers : ServeCoordFails(p) /\ UNCHANGED <<othersServe, varsApi>>
    \/ \E p \in ServePublishers :
          coordinator_kind = "file" /\ ServeCoordRegister(p) /\ UNCHANGED <<othersServe, varsApi>>
    \/ \E p \in ServePublishers :
          coordinator_kind = "file" /\ ServeLocalsRegister(p) /\ UNCHANGED <<othersServe, varsApi>>
    \/ \E p \in ServePublishers :
          coordinator_kind = "file" /\ AnnounceEnds(p) /\ UNCHANGED <<othersServe, varsApi>>
    \/ \E p \in ServePublishers : ApiServeCoordRegister(p) /\ UNCHANGED othersServe
    \/ \E p \in ServePublishers : ApiServeLocalsRegister(p) /\ UNCHANGED othersServe
    \/ \E p \in ServePublishers : ApiAnnounceEnds(p) /\ UNCHANGED othersServe
    \/ \E p \in ServePublishers : RefreshTick(p) /\ UNCHANGED othersServe
    \/ \E p \in ServePublishers : RefreshPatched(p) /\ UNCHANGED othersServe
    \/ \E p \in ServePublishers : RefreshShutdown(p) /\ UNCHANGED othersServe
    \/ \E p \in ServePublishers : UnregisterAsync(p) /\ UNCHANGED othersServe

(***************************************************************************)
(*            Subscriber::recv_subgroup: the objects of one stream         *)
(***************************************************************************)

\* current_object_id is a u64; the model keeps IdBits bits of it, so that a sum
\* of deltas that does not fit is within reach.
IdModulus == 2 ^ IdBits

InitSubgroup ==
    /\ wire = <<>>
    /\ created = <<>>
    /\ current_object_id = 0
    /\ subgroup_res = "reading"

\* The id of the object alone, without the ids before it.
DeltaOnly(current, object_id_delta) == object_id_delta % IdModulus

\* current_object_id += object_id_delta where the sum fits.
AddDelta(current, object_id_delta) == (current + object_id_delta) % IdModulus

\* One turn of the loop of recv_subgroup: the object header is decoded,
\* current_object_id is advanced, subgroup_writer.create is called and the
\* payload is read; `available` is how much of it the stream still delivers.
\* A sum that overflows panics where overflow checks are compiled in and wraps
\* where they are not (wraps); a stream that ends inside the payload is WrongSize.
RecvSubgroupObject(object_id_delta, payload_length, available, wraps) ==
    /\ subgroup_res = "reading"
    /\ Len(wire) < MaxObjects
    /\ wire' = Append(wire, [object_id_delta |-> object_id_delta,
                             payload_length |-> payload_length])
    /\ IF current_object_id + object_id_delta >= IdModulus /\ ~wraps
       THEN /\ subgroup_res' = "panic"
            /\ UNCHANGED <<created, current_object_id>>
       ELSE /\ current_object_id' = AddDelta(current_object_id, object_id_delta)
            /\ created' = Append(created, [object_id |-> current_object_id',
                                           payload_length |-> payload_length])
            /\ subgroup_res' = IF available < payload_length THEN "WrongSize" ELSE "reading"

\* reader.done() is true: the loop ends and recv_subgroup returns Ok(()).
RecvSubgroupDone ==
    /\ subgroup_res = "reading"
    /\ subgroup_res' = "Ok"
    /\ UNCHANGED <<wire, created, current_object_id>>

othersSubgroup ==
    <<varsRemotes, varsRemote, varsLocals, varsAnnounce, varsSubscriber, varsSession, varsSetup,
      varsProducer, varsApi, varsLate>>

NextSubgroup ==
    \/ \E object_id_delta \in 0..MaxDelta, payload_length \in 0..MaxPayload,
          available \in 0..MaxPayload, wraps \in BOOLEAN :
          /\ available <= payload_length
          /\ RecvSubgroupObject(object_id_delta, payload_length, available, wraps)
          /\ UNCHANGED othersSubgroup
    \/ RecvSubgroupDone /\ UNCHANGED othersSubgroup

(***************************************************************************)
(*          TrackNamespace: encode, decode, TryFrom<Vec<TupleField>>       *)
(***************************************************************************)

\* Here a tuple field is a sequence of bytes 0..255 and a buffer is a sequence
\* of bytes; a namespace is the sequence of its fields.
MAX_FIELDS == 32
MAX_VALUE_SIZE == 4096

InitCodec == codec = [op |-> "none"]

\* "x".repeat(n)
Fill(n) == [i \in 1..n |-> 120]

\* The variable-length integer of the wire format, for values below 2^30:
\* the two high bits of the first byte give the length (1, 2 or 4 bytes).
VarIntEncode(x) ==
    IF x < 64 THEN <<x>>
    ELSE IF x < 16384 THEN <<64 + (x \div 256), x % 256>>
    ELSE <<128 + (x \div 16777216), (x \div 65536) % 256, (x \div 256) % 256, x % 256>>

\* Decoding answers [err, value, rest]; a buffer that ends early is "More".
VarIntDecode(buf) ==
    IF Len(buf) = 0 THEN [err |-> "More", value |-> 0, rest |-> buf]
    ELSE LET size == IF buf[1] < 64 THEN 1 ELSE IF buf[1] < 128 THEN 2 ELSE 4
         IN IF Len(buf) < size THEN [err |-> "More", value |-> 0, rest |-> buf]
            ELSE [err |-> "Ok",
                  value |-> IF size = 1 THEN buf[1]
                            ELSE IF size = 2 THEN (buf[1] - 64) * 256 + buf[2]
                            ELSE (buf[1] - 128) * 16777216 + buf[2] * 65536
                                 + buf[3] * 256 + buf[4],
                  rest |-> SubSeq(buf, size + 1, Len(buf))]

\* TupleField::encode: the length, then the bytes.
TupleFieldEncode(value) ==
    IF Len(value) > MAX_VALUE_SIZE
    THEN [err |-> "FieldBoundsExceeded", bytes |-> <<>>]
    ELSE [err |-> "Ok", bytes |-> VarIntEncode(Len(value)) \o value]

\* TupleField::decode.
TupleFieldDecode(buf) ==
    LET size == VarIntDecode(buf)
    IN IF size.err # "Ok" THEN [err |-> size.err, value |-> <<>>, rest |-> buf]
       ELSE IF size.value > MAX_VALUE_SIZE
       THEN [err |-> "FieldBoundsExceeded", value |-> <<>>, rest |-> size.rest]
       ELSE IF Len(size.rest) < size.value
       THEN [err |-> "More", value |-> <<>>, rest |-> size.rest]
       ELSE [err |-> "Ok", value |-> SubSeq(size.rest, 1, size.value),
             rest |-> SubSeq(size.rest, size.value + 1, Len(size.rest))]

\* The loop of encode over the fields from the i-th on; w is what was written.
RECURSIVE EncodeFields(_, _, _)
EncodeFields(fields, i, w) ==
    IF i > Len(fields) THEN [err |-> "Ok", bytes |-> w]
    ELSE LET field == TupleFieldEncode(fields[i])
         IN IF field.err # "Ok" THEN [err |-> field.err, bytes |-> w]
            ELSE EncodeFields(fields, i + 1, w \o field.bytes)

\* encode that leaves out the number of fields.
TrackNamespaceEncodeNoCount(fields) ==
    IF Len(fields) > MAX_FIELDS
    THEN [err |-> "FieldBoundsExceeded", bytes |-> <<>>]
    ELSE EncodeFields(fields, 1, <<>>)

\* encode without the check of the number of fields.
TrackNamespaceEncodeUnchecked(fields) ==
    EncodeFields(fields, 1, VarIntEncode(Len(fields)))

\* <TrackNamespace as Encode>::encode.
TrackNamespaceEncode(fields) ==
    IF Len(fields) > MAX_FIELDS
    THEN [err |-> "FieldBoundsExceeded", bytes |-> <<>>]
    ELSE EncodeFields(fields, 1, VarIntEncode(Len(fields)))

\* The loop of decode: `left` fields are still to be read from buf.
RECURSIVE DecodeFields(_, _, _)
DecodeFields(left, buf, fields) ==
    IF left = 0 THEN [err |-> "Ok", fields |-> fields, rest |-> buf]
    ELSE LET field == TupleFieldDecode(buf)
         IN IF field.err # "Ok" THEN [err |-> field.err, fields |-> <<>>, rest |-> field.rest]
            ELSE DecodeFields(left - 1, field.rest, Append(fields, field.value))

\* <TrackNamespace as Decode>::decode.
TrackNamespaceDecode(buf) ==
    LET count == VarIntDecode(buf)
    IN IF count.err # "Ok" THEN [err |-> count.err, fields |-> <<>>, rest |-> buf]
       ELSE IF count.value > MAX_FIELDS
       THEN [err |-> "FieldBoundsExceeded", fields |-> <<>>, rest |-> count.rest]
       ELSE DecodeFields(count.value, count.rest, <<>>)

\* try_from that already refuses MAX_FIELDS fields.
TryFromFieldsOffByOne(fields) ==
    IF Len(fields) >= MAX_FIELDS THEN [err |-> "TooManyFields", fields |-> <<>>]
    ELSE IF \E i \in 1..Len(fields) : Len(fields[i]) > MAX_VALUE_SIZE
    THEN [err |-> "FieldTooLarge", fields |-> <<>>]
    ELSE [err |-> "Ok", fields |-> fields]

\* TryFrom<Vec<TupleField>>::try_from.
TryFromFields(fields) ==
    IF Len(fields) > MAX_FIELDS THEN [err |-> "TooManyFields", fields |-> <<>>]
    ELSE IF \E i \in 1..Len(fields) : Len(fields[i]) > MAX_VALUE_SIZE
    THEN [err |-> "FieldTooLarge", fields |-> <<>>]
    ELSE [err |-> "Ok", fields |-> fields]

\* The fields and namespaces handed to the codec: short fields, fields at the
\* two sizes where the length takes one more byte, fields at and over
\* MAX_VALUE_SIZE; namespaces of a few such fields, and namespaces filled up to
\* MAX_FIELDS - 1, MAX_FIELDS and MAX_FIELDS + 1 fields.
CodecFields ==
    {<<>>, <<97>>, <<97, 98>>, <<0, 64>>, Fill(63), Fill(64), Fill(MAX_VALUE_SIZE),
     Fill(MAX_VALUE_SIZE + 1)}
CodecShort == UNION {[1..n -> CodecFields] : n \in 0..MaxCodecFields}
CodecNamespaces ==
    CodecShort \cup
    {head \o [i \in 1..n |-> fill] :
        head \in {<<>>, <<<<97>>>>, <<Fill(MAX_VALUE_SIZE + 1)>>},
        n \in {MAX_FIELDS - 1, MAX_FIELDS},
        fill \in {<<>>, <<98>>}}

\* What follows an encoded namespace in a buffer.
CodecTails == {<<>>, <<0>>, <<1, 97>>}

\* The buffers handed to decode: every encoding of a namespace with something
\* after it, the same cut short by one byte, and buffers that announce
\* MAX_FIELDS, MAX_FIELDS + 1 and more fields or a field over MAX_VALUE_SIZE.
CodecBuffers ==
    {TrackNamespaceEncodeUnchecked(ns).bytes \o tail :
        ns \in {n \in CodecNamespaces : TrackNamespaceEncodeUnchecked(n).err = "Ok"},
        tail \in CodecTails}
    \cup {LET bytes == TrackNamespaceEncodeUnchecked(ns).bytes
          IN SubSeq(bytes, 1, Len(bytes) - 1) :
             ns \in {n \in CodecShort : TrackNamespaceEncodeUnchecked(n).err = "Ok"}}
    \cup {VarIntEncode(count) \o [i \in 1..rest |-> 0] :
             count \in {MAX_FIELDS, MAX_FIELDS + 1, 63, 64, 300}, rest \in {0, 31, 32, 255}}
    \cup {<<1>> \o VarIntEncode(size) \o Fill(size) :
             size \in {MAX_VALUE_SIZE, MAX_VALUE_SIZE + 1}}

EncodeCall(ns) ==
    /\ codec.op = "none"
    /\ codec' = [op |-> "encode", arg |-> ns, ret |-> TrackNamespaceEncode(ns)]

DecodeCall(buf) ==
    /\ codec.op = "none"
    /\ codec' = [op |-> "decode", arg |-> buf, ret |-> TrackNamespaceDecode(buf)]

\* encode, then decode of what encode wrote followed by `tail`.
EncodeDecodeCall(ns, tail) ==
    /\ codec.op = "none"
    /\ LET encoded == TrackNamespaceEncode(ns)
       IN /\ encoded.err = "Ok"
          /\ codec' = [op |-> "encode_decode", arg |-> ns, tail |-> tail,
                       written |-> Len(encoded.bytes),
                       ret |-> TrackNamespaceDecode(encoded.bytes \o tail)]

TryFromCall(fields) ==
    /\ codec.op = "none"
    /\ codec' = [op |-> "try_from", arg |-> fields, ret |-> TryFromFields(fields)]

\* to_utf8_path, then from_utf8_path of the path, as FileCoordinator::lookup
\* rebuilds the namespace of a key written by register_namespace.
PathCall(ns) ==
    /\ codec.op = "none"
    /\ codec' = [op |-> "path", arg |-> ns, path |-> to_utf8_path(ns),
                 ret |-> from_utf8_path(namespace_key(ns))]

othersCodec == <<varsEarly, varsConfig, varsFile, varsAnnounced, varsSubscribeCall>>

NextCodec ==
    \/ \E ns \in CodecNamespaces : EncodeCall(ns) /\ UNCHANGED othersCodec
    \/ \E buf \in CodecBuffers : DecodeCall(buf) /\ UNCHANGED othersCodec
    \/ \E ns \in CodecNamespaces, tail \in CodecTails :
          EncodeDecodeCall(ns, tail) /\ UNCHANGED othersCodec
    \/ \E fields \in CodecNamespaces : TryFromCall(fields) /\ UNCHANGED othersCodec
    \/ \E ns \in SubscribeNamespaces : PathCall(ns) /\ UNCHANGED othersCodec

(***************************************************************************)
(*        ApiCoordinatorConfig and the period of the refresh task          *)
(***************************************************************************)

DEFAULT_REGISTRATION_TTL_SECS == 600

\* ApiCoordinatorConfig::new
ConfigNew ==
    [registration_ttl_secs |-> DEFAULT_REGISTRATION_TTL_SECS,
     refresh_interval_secs |-> DEFAULT_REGISTRATION_TTL_SECS \div 2]

\* ApiCoordinatorConfig::with_ttl
with_ttl(self, ttl_secs) ==
    [registration_ttl_secs |-> ttl_secs, refresh_interval_secs |-> ttl_secs \div 2]

InitConfig ==
    /\ config = ConfigNew
    /\ refresh_timer = [state |-> "none", next_tick |-> 0]
    /\ clock = 0
    /\ patch_times = <<>>

\* main: ApiCoordinatorConfig::new(api_url, relay_url).with_ttl(cli.api_ttl)
WithTtl(api_ttl) ==
    /\ refresh_timer.state = "none"
    /\ config = ConfigNew
    /\ config' = with_ttl(config, api_ttl)
    /\ UNCHANGED <<refresh_timer, clock, patch_times>>

\* register_namespace spawns the refresh task, which begins with
\* tokio::time::interval(Duration::from_secs(refresh_interval_secs)): the call
\* panics on a period of zero, otherwise the first tick is due at once.
StartRefreshTask ==
    /\ refresh_timer.state = "none"
    /\ refresh_timer' = [state |-> IF config.refresh_interval_secs = 0
                                   THEN "panicked" ELSE "running",
                         next_tick |-> clock]
    /\ UNCHANGED <<config, clock, patch_times>>

\* The task sleeps in interval.tick() until the next tick is due.
SleepUntilTick ==
    /\ refresh_timer.state = "running"
    /\ clock < refresh_timer.next_tick
    /\ clock' = refresh_timer.next_tick
    /\ UNCHANGED <<config, refresh_timer, patch_times>>

\* interval.tick() completes: patch_origin is called, the next tick is one
\* period later.
IntervalTick ==
    /\ refresh_timer.state = "running"
    /\ clock = refresh_timer.next_tick
    /\ Len(patch_times) < MaxPatches
    /\ patch_times' = Append(patch_times, clock)
    /\ refresh_timer' = [refresh_timer EXCEPT !.next_tick = clock + config.refresh_interval_secs]
    /\ UNCHANGED <<config, clock>>

othersConfig == <<varsEarly, varsCodec, varsFile, varsAnnounced, varsSubscribeCall>>

NextConfig ==
    \/ \E api_ttl \in 0..MaxTtl : WithTtl(api_ttl) /\ UNCHANGED othersConfig
    \/ StartRefreshTask /\ UNCHANGED othersConfig
    \/ SleepUntilTick /\ UNCHANGED othersConfig
    \/ IntervalTick /\ UNCHANGED othersConfig

(***************************************************************************)
(*      FileCoordinator: the lock around every read and every write        *)
(***************************************************************************)

\* The tasks that use the file: two of this relay (spawn_blocking threads, or
\* a handle being dropped), one of a second relay process.
FileTasks == {1, 2, 3}
TaskRelayUrl(t) == IF t = 3 THEN OtherRelay ELSE ThisRelay

\* The namespaces they register, unregister and look up.
LockNamespaces == {<<<<"a">>>>, <<<<"a">>, <<"b">>>>}

\* CoordinatorData::default(): no namespace.
EmptyData == [k \in FileKeys |-> NoEntry]

IdleTask == [pc |-> "idle", op |-> "none", namespace |-> <<>>, data |-> EmptyData,
             seen |-> [truncated |-> FALSE, data |-> EmptyData]]

InitFile ==
    /\ shared_file = [truncated |-> FALSE, data |-> EmptyData]
    /\ flock = [t \in FileTasks |-> "none"]
    /\ ftask = [t \in FileTasks |-> IdleTask]
    /\ serial_data = EmptyData

\* What an operation does to the document.
ApplyOp(op, data, namespace, relay_url) ==
    IF op = "register" THEN FileRegister(data, namespace, relay_url)
    ELSE IF op = "unregister" THEN unregister_namespace_sync(data, namespace)
    ELSE data

\* A lock call that returns at once whatever the other tasks hold.
LockNotWaiting(t, kind) == TRUE

\* flock: lock_exclusive returns when no other open file holds a lock,
\* lock_shared when no other open file holds the exclusive lock.
LockGranted(t, kind) ==
    IF kind = "exclusive"
    THEN \A u \in FileTasks \ {t} : flock[u] = "none"
    ELSE \A u \in FileTasks \ {t} : flock[u] # "exclusive"

\* register_namespace (lines 139-147) and unregister_namespace_sync (53-60):
\* the file is opened and lock_exclusive has returned.
LockExclusive(t, op, namespace) ==
    /\ ftask[t].pc = "idle"
    /\ LockGranted(t, "exclusive")
    /\ flock' = [flock EXCEPT ![t] = "exclusive"]
    /\ ftask' = [ftask EXCEPT ![t] = [IdleTask EXCEPT !.pc = "locked", !.op = op,
                                                      !.namespace = namespace]]
    /\ serial_data' = ApplyOp(op, serial_data, namespace, TaskRelayUrl(t))
    /\ UNCHANGED shared_file

\* lookup (lines 190-198): the file is opened and lock_shared has returned.
LockShared(t, namespace) ==
    /\ ftask[t].pc = "idle"
    /\ LockGranted(t, "shared")
    /\ flock' = [flock EXCEPT ![t] = "shared"]
    /\ ftask' = [ftask EXCEPT ![t] = [IdleTask EXCEPT !.pc = "locked", !.op = "lookup",
                                                      !.namespace = namespace]]
    /\ UNCHANGED <<shared_file, serial_data>>

\* read_data: the whole file is read; an empty file is CoordinatorData::default().
ReadData(t) ==
    /\ ftask[t].pc = "locked"
    /\ ftask' = [ftask EXCEPT ![t].pc = "read", ![t].data = shared_file.data,
                              ![t].seen = shared_file]
    /\ UNCHANGED <<shared_file, flock, serial_data>>

\* write_data, first half: seek to the start and set_len(0), after the insert
\* or the remove on the copy that was read.
WriteTruncate(t) ==
    /\ ftask[t].pc = "read"
    /\ ftask[t].op \in {"register", "unregister"}
    /\ shared_file' = [truncated |-> TRUE, data |-> EmptyData]
    /\ ftask' = [ftask EXCEPT ![t].pc = "truncated",
                              ![t].data = ApplyOp(ftask[t].op, @, ftask[t].namespace,
                                                  TaskRelayUrl(t))]
    /\ UNCHANGED <<flock, serial_data>>

\* write_data, second half: write_all of the document and flush.
WriteAll(t) ==
    /\ ftask[t].pc = "truncated"
    /\ shared_file' = [truncated |-> FALSE, data |-> ftask[t].data]
    /\ ftask' = [ftask EXCEPT ![t].pc = "written"]
    /\ UNCHANGED <<flock, serial_data>>

\* file.unlock(), after the write or, in lookup, after the search of the copy.
Unlock(t) ==
    /\ \/ ftask[t].pc = "written"
       \/ ftask[t].pc = "read" /\ ftask[t].op = "lookup"
    /\ flock' = [flock EXCEPT ![t] = "none"]
    /\ ftask' = [ftask EXCEPT ![t] = IdleTask]
    /\ UNCHANGED <<shared_file, serial_data>>

othersFile == <<varsEarly, varsCodec, varsConfig, varsAnnounced, varsSubscribeCall>>

NextFile ==
    \/ \E t \in FileTasks, op \in {"register", "unregister"}, ns \in LockNamespaces :
          LockExclusive(t, op, ns) /\ UNCHANGED othersFile
    \/ \E t \in FileTasks, ns \in LockNamespaces : LockShared(t, ns) /\ UNCHANGED othersFile
    \/ \E t \in FileTasks : ReadData(t) /\ UNCHANGED othersFile
    \/ \E t \in FileTasks : WriteTruncate(t) /\ UNCHANGED othersFile
    \/ \E t \in FileTasks : WriteAll(t) /\ UNCHANGED othersFile
    \/ \E t \in FileTasks : Unlock(t) /\ UNCHANGED othersFile

(***************************************************************************)
(*      Subscriber: PublishNamespace and the announced queue               *)
(*      (session/subscriber.rs, recv_message and send_message)             *)
(***************************************************************************)

InitAnnounced ==
    /\ announced = {}
    /\ announced_queue = [closed |-> FALSE, items |-> <<>>]
    /\ subscriber_outgoing = <<>>
    /\ recv_log = <<>>

\* Announced::new: the handle of one announce, not yet answered with an OK.
AnnouncedNew(id, namespace) == [id |-> id, namespace |-> namespace, ok |-> FALSE]

\* Queue::push: a closed queue hands the item back.
QueuePush(queue, item) ==
    IF queue.closed
    THEN [ok |-> FALSE, queue |-> queue]
    ELSE [ok |-> TRUE, queue |-> [queue EXCEPT !.items = Append(@, item)]]

\* Announced::close(err): the handle is dropped with the error; a handle that was
\* never answered with an OK replies with the error for its request id.
AnnouncedClose(a, err) ==
    [type |-> "PublishNamespaceError", id |-> a.id, namespace |-> a.namespace, error_code |-> err]

\* send_message, were the PublishNamespaceError arm to remove the namespace from
\* the announce map as the PublishNamespaceCancel arm does.
send_message_error_drops(msg, map, locked) ==
    IF locked
    THEN [stalled |-> TRUE, announced |-> map, pushed |-> <<>>]
    ELSE [stalled |-> FALSE, announced |-> map \ {msg.namespace}, pushed |-> <<msg>>]

\* Subscriber::send_message, called while the caller holds the lock of the announce
\* map or not: PublishNamespaceCancel locks the map to remove the namespace
\* (drop_publish_namespace), which never returns when the lock is already held by
\* the caller; every other message is only pushed on the outgoing queue.
send_message(msg, map, locked) ==
    IF msg.type = "PublishNamespaceCancel"
    THEN IF locked
         THEN [stalled |-> TRUE, announced |-> map, pushed |-> <<>>]
         ELSE [stalled |-> FALSE, announced |-> map \ {msg.namespace}, pushed |-> <<msg>>]
    ELSE [stalled |-> FALSE, announced |-> map, pushed |-> <<msg>>]

\* recv_publish_namespace: the map stays locked until the handler returns.
recv_publish_namespace(id, namespace) ==
    IF namespace \in announced
    THEN [res |-> "Duplicate", announced |-> announced, queue |-> announced_queue, pushed |-> <<>>]
    ELSE LET handle == AnnouncedNew(id, namespace)
             push == QueuePush(announced_queue, handle)
         IN  IF ~push.ok
             THEN LET sent == send_message(AnnouncedClose(handle, "Cancel"), announced, TRUE)
                  IN  [res |-> IF sent.stalled THEN "stalled" ELSE "Ok",
                       announced |-> sent.announced, queue |-> announced_queue,
                       pushed |-> sent.pushed]
             ELSE [res |-> "Ok", announced |-> announced \cup {namespace}, queue |-> push.queue,
                   pushed |-> <<>>]

\* recv_publish_namespace_done: the entry, if any, is removed and told of the end.
recv_publish_namespace_done(namespace) ==
    [res |-> "Ok", announced |-> announced \ {namespace}, queue |-> announced_queue, pushed |-> <<>>]

\* run_recv leaves its loop on the first Err of recv_message, and never comes back
\* from a handler that does not return.
ControlRunning == \A i \in 1..Len(recv_log) : recv_log[i].res = "Ok"

\* recv_message for the two announce messages of the publisher.
RecvMessage(msg, namespace) ==
    /\ ControlRunning
    /\ Len(recv_log) < MaxControlMessages
    /\ LET r == IF msg = "PublishNamespace"
                THEN recv_publish_namespace(Len(recv_log), namespace)
                ELSE recv_publish_namespace_done(namespace)
       IN  /\ announced' = r.announced
           /\ announced_queue' = r.queue
           /\ subscriber_outgoing' = subscriber_outgoing \o r.pushed
           /\ recv_log' = Append(recv_log, [msg |-> msg, namespace |-> namespace, res |-> r.res])

RecvPublishNamespace(namespace) == RecvMessage("PublishNamespace", namespace)

RecvPublishNamespaceDone(namespace) == RecvMessage("PublishNamespaceDone", namespace)

\* Subscriber::announced: the application takes the next handle off the queue.
AnnouncedPop ==
    /\ ~announced_queue.closed
    /\ announced_queue.items # <<>>
    /\ announced_queue' = [announced_queue EXCEPT !.items = Tail(@)]
    /\ UNCHANGED <<announced, subscriber_outgoing, recv_log>>

\* The announced queue is closed: from now on a push hands its item back.
AnnouncedQueueClose ==
    /\ ~announced_queue.closed
    /\ announced_queue' = [closed |-> TRUE, items |-> <<>>]
    /\ UNCHANGED <<announced, subscriber_outgoing, recv_log>>

othersAnnounced == <<varsEarly, varsCodec, varsConfig, varsFile, varsSubscribeCall>>

NextAnnounced ==
    \/ \E ns \in AnnounceNamespaces : RecvPublishNamespace(ns) /\ UNCHANGED othersAnnounced
    \/ \E ns \in AnnounceNamespaces : RecvPublishNamespaceDone(ns) /\ UNCHANGED othersAnnounced
    \/ AnnouncedPop /\ UNCHANGED othersAnnounced
    \/ AnnouncedQueueClose /\ UNCHANGED othersAnnounced

(***************************************************************************)
(*      Session::run_recv: classification of the control messages          *)
(*      (session/mod.rs 270-350, session/subscriber.rs 142-169)            *)
(***************************************************************************)

\* The variants of message::Publisher, as matched by Subscriber::recv_message.
PublisherMessages ==
    {"PublishNamespace", "PublishNamespaceDone", "Publish", "PublishDone", "SubscribeOk",
     "SubscribeError", "TrackStatusOk", "TrackStatusError", "FetchOk", "FetchError",
     "SubscribeNamespaceOk", "SubscribeNamespaceError"}

\* The arms of recv_message that return SessionError::unimplemented(..).
UnimplementedMessages ==
    {"Publish", "TrackStatusError", "FetchOk", "FetchError", "SubscribeNamespaceOk",
     "SubscribeNamespaceError"}

\* Variants of message::Subscriber, the messages a Subscriber handle sends.
SubscriberMessages ==
    {"Subscribe", "Unsubscribe", "TrackStatus", "PublishNamespaceOk", "PublishNamespaceError",
     "PublishNamespaceCancel"}

\* Messages of neither class: GOAWAY, MAX_REQUEST_ID, REQUESTS_BLOCKED.
NeitherMessages == {"GoAway", "MaxRequestId", "RequestsBlocked"}

\* The request ids of the subscriptions made while run_recv is observed.
RecvSubIds == {1, 2}

\* SessionError::unimplemented(..): an error of the kind Unimplemented, which
\* is not a Serve error.
SessionErrorUnimplemented == "Unimplemented"

\* The namespace of the tracks whose status is requested.
TrackStatusNamespaces == {<<<<"a">>>>}

\* Session::new makes both handles.
SessionHandles == [publisher |-> TRUE, subscriber |-> TRUE]

\* run_recv after the decode: the handle the message goes to, or the error returned.
Classify(msg, handles) ==
    IF msg \in PublisherMessages
    THEN IF handles.subscriber THEN "subscriber" ELSE "RoleViolation"
    ELSE IF msg \in SubscriberMessages
         THEN IF handles.publisher THEN "publisher" ELSE "RoleViolation"
         ELSE SessionErrorUnimplemented

\* recv_message, were every error that is not a protocol violation logged and
\* Ok(()) returned.
SwallowsUnimplemented(res) == IF res \in {"Serve", "Unimplemented"} THEN "Ok" ELSE res

\* recv_message, last lines: a Serve error is logged and Ok(()) returned, every
\* other result is returned as it is.
RecvMessageResult(res) == IF res = "Serve" THEN "Ok" ELSE res

\* run_recv: `?` on the result of recv_message.
RunRecvResult(res) == IF res = "Ok" THEN "running" ELSE res

\* One turn of run_recv for PublishNamespace or PublishNamespaceDone.
RunRecvAnnounce(msg, namespace) ==
    /\ SessionRunning
    /\ Classify(msg, SessionHandles) = "subscriber"
    /\ msg \in {"PublishNamespace", "PublishNamespaceDone"}
    /\ Len(announced_queue.items) < MaxQueued \/ msg = "PublishNamespaceDone"
    /\ LET r == IF msg = "PublishNamespace"
                THEN recv_publish_namespace(Len(subscriber_outgoing), namespace)
                ELSE recv_publish_namespace_done(namespace)
       IN  /\ announced' = r.announced
           /\ announced_queue' = r.queue
           /\ subscriber_outgoing' = subscriber_outgoing \o r.pushed
           /\ session_res' = RunRecvResult(RecvMessageResult(r.res))
    /\ UNCHANGED <<recv_log, varsSubscriber>>

\* One turn of run_recv for SubscribeOk, SubscribeError or PublishDone.
RunRecvSubscribe(msg, id, track_alias) ==
    /\ SessionRunning
    /\ Classify(msg, SessionHandles) = "subscriber"
    /\ \/ msg = "SubscribeOk" /\ recv_subscribe_ok(id, track_alias)
       \/ msg = "SubscribeError" /\ recv_subscribe_error(id)
       \/ msg = "PublishDone" /\ recv_publish_done(id)
    /\ session_res' = RunRecvResult(RecvMessageResult("Ok"))
    /\ UNCHANGED varsAnnounced

\* One turn of run_recv for TrackStatusOk: recv_track_status_ok returns Ok(()).
RunRecvTrackStatusOk ==
    /\ SessionRunning
    /\ Classify("TrackStatusOk", SessionHandles) = "subscriber"
    /\ session_res' = RunRecvResult(RecvMessageResult("Ok"))
    /\ UNCHANGED <<varsAnnounced, varsSubscriber>>

\* One turn of run_recv for a message whose arm is SessionError::unimplemented.
RunRecvUnimplemented(msg) ==
    /\ SessionRunning
    /\ Classify(msg, SessionHandles) = "subscriber"
    /\ msg \in UnimplementedMessages
    /\ session_res' = RunRecvResult(RecvMessageResult(SessionErrorUnimplemented))
    /\ UNCHANGED <<varsAnnounced, varsSubscriber>>

\* One turn of run_recv for a message of the Subscriber class: it is handed to
\* Publisher::recv_message, which returns res.
RunRecvToPublisher(msg, res) ==
    /\ SessionRunning
    /\ Classify(msg, SessionHandles) = "publisher"
    /\ session_res' = RunRecvResult(res)
    /\ UNCHANGED <<varsAnnounced, varsSubscriber>>

\* One turn of run_recv for a message that converts to neither class.
RunRecvNeither(msg) ==
    /\ SessionRunning
    /\ Classify(msg, SessionHandles) \notin {"subscriber", "publisher"}
    /\ session_res' = Classify(msg, SessionHandles)
    /\ UNCHANGED <<varsAnnounced, varsSubscriber>>

\* Subscriber::track_status: a TRACK_STATUS with the next request id is sent.
TrackStatusRequest(namespace) ==
    /\ Len(subscriber_outgoing) < MaxTrackStatus
    /\ LET r == fetch_add(next_requestid, 2)
       IN  /\ next_requestid' = r.new
           /\ subscriber_outgoing' =
                 Append(subscriber_outgoing,
                        [type |-> "TrackStatus", id |-> r.ret, namespace |-> namespace,
                         error_code |-> "none"])
    /\ UNCHANGED <<announced, announced_queue, recv_log, varsSubscriber, session_res>>

othersRecv ==
    <<varsRemotes, varsRemote, varsLocals, varsAnnounce, first_requestid, issued, held, varsQueue,
      task_steps, varsSetup, varsProducer, varsApi, varsSubgroup, varsCodec, varsConfig, varsFile,
      varsSubscribeCall>>

NextRecv ==
    \/ \E i \in RecvSubIds :
          Subscribe(i) /\ UNCHANGED <<othersRecv, varsAnnounced, session_res, next_requestid>>
    \/ SessionRunning /\ AnnouncedPop /\ UNCHANGED <<othersRecv, varsSubscriber, session_res, next_requestid>>
    \/ \E ns \in TrackStatusNamespaces :
          TrackStatusRequest(ns) /\ UNCHANGED othersRecv
    \/ \E msg \in PublisherMessages, ns \in AnnounceNamespaces :
          RunRecvAnnounce(msg, ns) /\ UNCHANGED <<othersRecv, next_requestid>>
    \/ \E msg \in PublisherMessages, i \in RecvSubIds, a \in Aliases :
          RunRecvSubscribe(msg, i, a) /\ UNCHANGED <<othersRecv, next_requestid>>
    \/ RunRecvTrackStatusOk /\ UNCHANGED <<othersRecv, next_requestid>>
    \/ \E msg \in PublisherMessages :
          RunRecvUnimplemented(msg) /\ UNCHANGED <<othersRecv, next_requestid>>
    \/ \E msg \in SubscriberMessages, res \in {"Ok", "Duplicate"} :
          RunRecvToPublisher(msg, res) /\ UNCHANGED <<othersRecv, next_requestid>>
    \/ \E msg \in NeitherMessages :
          RunRecvNeither(msg) /\ UNCHANGED <<othersRecv, next_requestid>>

(***************************************************************************)
(*      Subscriber::subscribe next to the tasks of Session::run            *)
(*      (session/subscriber.rs 114-121, 209-259)                           *)
(***************************************************************************)

InitSubscribeCall ==
    /\ sub_pending = [c \in Callers |-> <<>>]
    /\ sub_map = {}
    /\ sub_replies = [handled |-> {}, ignored |-> {}]

\* subscribe, first line: get_next_request_id on the caller's clone.
SubscribeGetId(c) ==
    /\ sub_pending[c] = <<>>
    /\ GetNextRequestId(c)
    /\ UNCHANGED varsSubscribeCall

\* subscribe, second line: Subscribe::new, which sends the SUBSCRIBE that carries
\* the id through send_message on the clone it is given.
SubscribeNew(c) ==
    /\ SendMessage(c)
    /\ sub_pending' = [sub_pending EXCEPT ![c] = held[c]]
    /\ UNCHANGED <<sub_map, sub_replies>>

\* subscribe, third line: subscribes.lock().unwrap().insert(request_id, recv).
SubscribeInsert(c) ==
    /\ sub_pending[c] # <<>>
    /\ sub_map' = sub_map \cup {sub_pending[c][1]}
    /\ sub_pending' = [sub_pending EXCEPT ![c] = <<>>]
    /\ UNCHANGED <<sub_replies, varsSession>>

\* The lookup of recv_subscribe_ok and of remove_subscribe: the reply reaches the
\* subscription when the map has an entry for its id, and is dropped otherwise.
ReplyLookup(map, replies, id) ==
    IF id \in map
    THEN [replies EXCEPT !.handled = @ \cup {id}]
    ELSE [replies EXCEPT !.ignored = @ \cup {id}]

\* run_recv handles the peer's SUBSCRIBE_OK or SUBSCRIBE_ERROR for a SUBSCRIBE
\* that run_send has written; err tells which of the two it is.
RecvSubscribeReply(id, err) ==
    /\ SessionRunning
    /\ \E i \in 1..Len(written) : written[i] = id
    /\ id \notin sub_replies.handled \cup sub_replies.ignored
    /\ sub_replies' = ReplyLookup(sub_map, sub_replies, id)
    /\ sub_map' = IF err THEN sub_map \ {id} ELSE sub_map
    /\ UNCHANGED <<sub_pending, varsSession>>

othersSubscribeCall ==
    <<varsRemotes, varsRemote, varsLocals, varsAnnounce, varsSubscriber, varsSetup, varsProducer,
      varsApi, varsSubgroup, varsCodec, varsConfig, varsFile, varsAnnounced>>

NextSubscribeCall ==
    \/ \E c \in Callers : SubscribeGetId(c) /\ UNCHANGED othersSubscribeCall
    \/ \E c \in Callers : SubscribeNew(c) /\ UNCHANGED othersSubscribeCall
    \/ \E c \in Callers : SubscribeInsert(c) /\ UNCHANGED othersSubscribeCall
    \/ RunSend(TRUE) /\ UNCHANGED <<othersSubscribeCall, varsSubscribeCall>>
    \/ \E id \in 0..(2 * MaxRequests), err \in BOOLEAN :
          RecvSubscribeReply(id, err) /\ UNCHANGED othersSubscribeCall

InitLate == InitCodec /\ InitConfig /\ InitFile /\ InitAnnounced /\ InitSubscribeCall

Init == InitRemotes /\ InitRemote /\ InitLocals /\ InitAnnounce /\ InitSubscriber /\ InitSession(0) /\ InitSetup
    /\ InitProducer /\ InitApi("file") /\ InitSubgroup /\ InitLate

\* The state of a relay started with the API coordinator.
InitApiCoordinator ==
    InitRemotes /\ InitRemote /\ InitLocals /\ InitAnnounce /\ InitSubscriber /\ InitSession(0)
    /\ InitSetup /\ InitProducer /\ InitApi("api") /\ InitSubgroup /\ InitLate

\* The state after Session::accept: the first request id is 1.
InitAccepted ==
    InitRemotes /\ InitRemote /\ InitLocals /\ InitAnnounce /\ InitSubscriber /\ InitSession(1)
    /\ InitSetup /\ InitProducer /\ InitApi("file") /\ InitSubgroup /\ InitLate

SpecAnnounced == Init /\ [][NextAnnounced]_vars

SpecRecv == Init /\ [][NextRecv]_vars

SpecSubscribeCall == Init /\ [][NextSubscribeCall]_vars

SpecRemotes == Init /\ [][NextRemotes]_vars

SpecRemote == Init /\ [][NextRemote]_vars

SpecLocals == Init /\ [][NextLocals]_vars

SpecAnnounce == Init /\ [][NextAnnounce]_vars

SpecSubscriber == Init /\ [][NextSubscriber]_vars

SpecSession == (Init \/ InitAccepted) /\ [][NextSession]_vars

SpecRun == (Init \/ InitAccepted) /\ [][NextRun]_vars

SpecSetup == Init /\ [][NextSetup]_vars

SpecProducer == Init /\ [][NextProducer]_vars

SpecSubgroup == Init /\ [][NextSubgroup]_vars

SpecCodec == Init /\ [][NextCodec]_vars

SpecConfig == Init /\ [][NextConfig]_vars

SpecFile == Init /\ [][NextFile]_vars

\* The background tasks of a registration are tokio tasks: a PATCH or DELETE in
\* flight completes, and the select! of the refresh task, which picks among
\* its ready branches at random, takes the shutdown branch sooner or later.
FairServe ==
    \A p \in ServePublishers :
        /\ WF_vars(RefreshPatched(p) /\ UNCHANGED othersServe)
        /\ SF_vars(RefreshShutdown(p) /\ UNCHANGED othersServe)
        /\ WF_vars(UnregisterAsync(p) /\ UNCHANGED othersServe)

SpecServe == (Init \/ InitApiCoordinator) /\ [][NextServe]_vars /\ FairServe

(***************************************************************************)
(*                               Claims                                    *)
(***************************************************************************)

\* The Remotes whose producer is queued or running, per origin URL.
Sessions(u) == {i \in RemoteIds : remotes[i].url = u /\ remotes[i].st \in {"queued", "running"}}

C1_AtMostOneSession == \A u \in Urls : Cardinality(Sessions(u)) <= 1

C1_RouteEffect ==
    \A u \in Urls : Route(u) =>
        IF remotes_lookup[u] # None
        THEN /\ route_ret'.kind = "cached"
             /\ route_ret'.remote = remotes_lookup[u]
             /\ UNCHANGED <<remotes_lookup, remotes_requested, remotes>>
        ELSE /\ route_ret'.kind = "new"
             /\ remotes[route_ret'.remote].st = "unused"
             /\ remotes_requested' = Append(remotes_requested, route_ret'.remote)
             /\ remotes_lookup' = [remotes_lookup EXCEPT ![u] = route_ret'.remote]
             /\ \A i \in RemoteIds : i # route_ret'.remote => remotes'[i] = remotes[i]
             /\ remotes'[route_ret'.remote].url = u

\* C1: at every moment at most one RemoteProducer (queued or running) exists per
\* origin URL, under every interleaving of route(), remote exits and map removals;
\* route() for a URL that has a consumer in the map returns it and queues nothing,
\* otherwise it inserts exactly one consumer and queues exactly one producer.
C1_OneSessionPerOrigin == []C1_AtMostOneSession /\ [][C1_RouteEffect]_vars

\* C1 witness: route() returned the cached consumer of a running remote that was
\* created after an earlier remote of the same origin had exited and been removed.
C1_Witness ==
    /\ route_ret.kind = "cached"
    /\ remotes[route_ret.remote].st = "running"
    /\ \E i \in RemoteIds : remotes[i].st = "removed" /\ remotes[i].url = route_ret.url

\* C2: while any reader of a key is live there is at most one in-flight subscribe
\* (one writer whose reader is live) for the key: the drop of an old reader never
\* removes the map entry of a newer live reader, so no second pair is created.
C2_OneInFlightPerKey == \A k \in Keys : Cardinality(LiveReaders(k)) <= 1

\* C3: while a reader of a key is alive, subscribe for the key returns that same
\* reader and pushes no new writer; once the last clone has been dropped the key
\* is no longer in the track map.
C3_SubscribeDedups ==
    /\ [][\A k \in Keys : (RemoteSubscribe(k) /\ LiveReaders(k) # {}) =>
            (sub_ret'.reader \in LiveReaders(k) /\ remote_requested' = remote_requested)]_vars
    /\ [](\A g \in ReaderIds : readers[g].st = "dropped" => remote_tracks[readers[g].key] # g)


\* Element-wise prefix: a is a prefix of b.
IsPrefix(a, b) == Len(a) <= Len(b) /\ \A i \in 1..Len(a) : a[i] = b[i]

LiveRegs == {r \in RegIds : regs[r].st = "live"}

\* The live registrations whose namespace is an element-wise prefix of q.
PrefixRegs(q) == {r \in LiveRegs : IsPrefix(regs[r].namespace, q)}

\* The live registration with the longest namespace among those that prefix q.
LongestPrefixReg(q) ==
    CHOOSE r \in PrefixRegs(q) :
        \A o \in PrefixRegs(q) : Len(regs[o].namespace) <= Len(regs[r].namespace)

\* C4: while the handle of registration r is alive, retrieve(ns) returns r's
\* reader for every ns that r.namespace prefixes and no longer registered
\* namespace prefixes, whatever the number of fields of r.namespace; and
\* retrieve(ns) returns None when no registered namespace prefixes ns.
C4_RetrieveFindsPrefix ==
    \A q \in Namespaces :
        IF PrefixRegs(q) = {} THEN Retrieve(locals_lookup, q) = {None}
        ELSE Retrieve(locals_lookup, q) = {LongestPrefixReg(q)}

\* C5: with two or more registered prefixes of a query, retrieve returns the
\* reader of the one with the most fields, whatever the registration order and
\* the iteration order of the map; and it never returns a reader whose
\* namespace is not an element-wise prefix of the query.
C5_LongestPrefixWins ==
    \A q \in Namespaces :
        /\ Cardinality(PrefixRegs(q)) >= 2 => Retrieve(locals_lookup, q) = {LongestPrefixReg(q)}
        /\ \A res \in Retrieve(locals_lookup, q) :
              res # None => res \in LiveRegs /\ IsPrefix(regs[res].namespace, q)

\* C5 witness: two registered prefixes of one query, the longer one registered
\* first, and a registered namespace longer than the query.
C5_Witness ==
    \E q \in Namespaces : \E r1, r2, r3 \in LiveRegs :
        /\ r1 < r2
        /\ {r1, r2} \subseteq PrefixRegs(q)
        /\ Len(regs[r1].namespace) > Len(regs[r2].namespace)
        /\ Len(regs[r3].namespace) > Len(q)
        /\ ZipAllEqual(regs[r3].namespace, q)

C6_FailedRegisterKeepsRegistry ==
    \A ns \in Namespaces : (LocalsRegister(ns) /\ locals_lookup[ns] # None) =>
        /\ reg_ret'.kind = "Duplicate"
        /\ locals_lookup' = locals_lookup
        /\ regs'[reg_ret'.id].st = "failed"
        /\ \A r \in RegIds : r # reg_ret'.id => regs'[r] = regs[r]

C6_EntryStaysUntilDrop ==
    \A ns \in Namespaces : (locals_lookup[ns] # None /\ locals_lookup'[ns] # locals_lookup[ns]) =>
        /\ regs'[locals_lookup[ns]].st = "dropped"
        /\ locals_lookup'[ns] = None

C6_OneEntryPerNamespace ==
    /\ \A r1, r2 \in LiveRegs : regs[r1].namespace = regs[r2].namespace => r1 = r2
    /\ \A r \in LiveRegs : locals_lookup[regs[r].namespace] = r
    /\ \A ns \in Namespaces : locals_lookup[ns] # None => locals_lookup[ns] \in LiveRegs

\* C6: register on a namespace that is already registered fails with Duplicate
\* and leaves the registry unchanged, produces no handle, the original entry
\* stays until the original handle is dropped, and the registry holds at most
\* one entry (one live handle) per namespace.
C6_DuplicateRegister ==
    /\ [][C6_FailedRegisterKeepsRegistry]_vars
    /\ [][C6_EntryStaysUntilDrop]_vars
    /\ []C6_OneEntryPerNamespace

\* C6 witness: a register call has just failed with Duplicate while the
\* original registration of that namespace is still alive.
C6_Witness ==
    /\ reg_ret.kind = "Duplicate"
    /\ \E r \in LiveRegs : regs[r].namespace = regs[reg_ret.id].namespace


\* The publishers whose announce of ns is being served (registered in Locals).
Serving(ns) == {p \in Publishers : ann[p].pc = "serving" /\ ann[p].namespace = ns}

\* The publishers that hold a coordinator registration handle for ns.
HoldsCoordHandle(ns) ==
    {p \in Publishers : ann[p].pc \in {"coord_registered", "serving"} /\ ann[p].namespace = ns}

C7_State ==
    /\ \A ns \in AnnounceNamespaces : Cardinality(Serving(ns)) <= 1
    /\ \A p \in Publishers : ann[p].ok <=> ann[p].pc \in {"serving", "ended"}
    /\ \A p \in Publishers : consumer_running[p]

C7_Step ==
    \A p \in Publishers :
        /\ (ServeLocalsRegister(p) /\ Serving(ann[p].namespace) = {}) => ann'[p].pc = "serving"
        /\ (ServeLocalsRegister(p) /\ Serving(ann[p].namespace) # {}) =>
               /\ ann'[p].pc = "rejected" /\ ann'[p].err = "Duplicate" /\ ~ann'[p].ok
               /\ \A q \in Publishers : q # p => ann'[q] = ann[q]
               /\ locals_lookup' = locals_lookup

\* C7: of two publishers of one relay that announce the same namespace, the one
\* that registers first succeeds and the other is rejected with Duplicate, gets
\* no PUBLISH_NAMESPACE_OK, and its Consumer::run keeps running and serves
\* later announces.
C7_DuplicateAnnounce == []C7_State /\ [][C7_Step]_vars

\* C7 witness: a publisher whose earlier announce was rejected is being served
\* again, next to another publisher that is being served.
C7_Witness ==
    \E p, q \in Publishers :
        /\ p # q
        /\ rejected_before[p] /\ ann[p].pc = "serving" /\ ann[p].ok
        /\ ann[q].pc = "serving"

\* C8: while a publisher's announce holds the coordinator handle of ns,
\* lookup(ns) returns this relay's URL; once an announce has dropped its handle
\* and nobody holds a handle for ns, lookup(ns) returns NamespaceNotFound.
C8_CoordinatorRoundTrip ==
    \A p \in Publishers :
        LET ns == ann[p].namespace IN
        /\ p \in HoldsCoordHandle(ns) =>
              FileLookup(coord_file, ns) = {[namespace |-> ns, url |-> ThisRelay]}
        /\ (ann[p].pc \in {"rejected", "ended"} /\ ann[p].err # "Coordinator"
              /\ HoldsCoordHandle(ns) = {} /\ ns \notin other_handles) =>
              FileLookup(coord_file, ns) = {NamespaceNotFound}

\* No wake-up of the alias wait is lost: a stream parked on a Notified future
\* that has not completed finds no entry for its alias in the map.
AliasWaitNoLostWakeup ==
    \A s \in StreamIds :
        (streams[s].pc = "parked" /\ streams[s].notified = "armed") =>
            subscribe_alias_map[streams[s].track_alias] = None

\* C9: a stream that is waiting on the notifier for its alias when the
\* SUBSCRIBE_OK that gives a subscription this alias is processed, before the
\* deadline, is resolved to the subscription and delivered; a stream fails with
\* NotFound only when no such SUBSCRIBE_OK was processed while it waited.
C9_AliasRace ==
    \A s \in StreamIds : streams[s].res = "NotFound" => ~streams[s].saw_ok

\* C10: a stream that ends inside the payload of an object fails with
\* WrongSize, and in that step the subscription of the stream is removed from
\* subscribes, its alias from the alias map, and the subscription is failed.
C10_WrongSizeEndsSubscription ==
    [][\A s \in StreamIds :
          (streams[s].res # "WrongSize" /\ streams'[s].res = "WrongSize") =>
              LET a == streams[s].track_alias
                  id == subscribe_alias_map[a] IN
              /\ subscribe_alias_map'[a] = None
              /\ id # None => (subscribes'[id].st = "removed" /\ subscribes'[id].err # "none")]_vars

\* C11: a Serve error raised for one subscription, by a control message, a
\* media stream or a datagram, never ends the session (Session::run keeps
\* running), and a stream that fails with a Serve error changes no subscription
\* other than the one its alias maps to.
C11_ServeErrorKeepsSession ==
    /\ [](session_res # "Serve")
    /\ [][\A s \in StreamIds :
            (streams[s].res = "none" /\ streams'[s].res \in {"NotFound", "Serve"}) =>
                \A i \in SubIds :
                    i # subscribe_alias_map[streams[s].track_alias] =>
                        subscribes'[i] = subscribes[i]]_vars

\* C12: track aliases are unique: two different live subscriptions never hold
\* the same track_alias, the alias map is injective (a live subscription is
\* reached through at most one alias), and every alias in the map leads to the
\* live subscription that holds exactly this alias.
C12_AliasUnique ==
    /\ \A i, j \in SubIds :
          (/\ i # j
           /\ subscribes[i].st = "active" /\ subscribes[j].st = "active"
           /\ subscribes[i].track_alias # None)
          => subscribes[i].track_alias # subscribes[j].track_alias
    /\ \A a, b \in Aliases :
          (subscribe_alias_map[a] # None /\ subscribe_alias_map[a] = subscribe_alias_map[b])
          => a = b
    /\ \A a \in Aliases :
          subscribe_alias_map[a] # None =>
              /\ subscribes[subscribe_alias_map[a]].st = "active"
              /\ subscribes[subscribe_alias_map[a]].track_alias = a

\* C13: request ids are distinct and strictly increasing in the order they are
\* generated, whichever handles generate them and however their calls
\* interleave: the k-th id is first + 2 * (k - 1), so a session made by connect
\* issues 0, 2, 4, ... and a session made by accept issues 1, 3, 5, ...; two
\* callers never hold the same id.
C13_RequestIds ==
    /\ first_requestid \in {0, 1}
    /\ \A k \in 1..Len(issued) :
          /\ issued[k] = first_requestid + 2 * (k - 1)
          /\ issued[k] % 2 = first_requestid
    /\ \A j, k \in 1..Len(issued) : j < k => issued[j] < issued[k]
    /\ \A c, d \in Callers : (c # d /\ held[c] # <<>>) => held[c] # held[d]

C13_Witness ==
    /\ first_requestid = 1
    /\ Len(issued) = MaxRequests
    /\ \A c \in Callers : held[c] # <<>>

\* C14: run_send writes the control messages in exactly the order in which
\* they were pushed on the outbound queue: what has been written is always the
\* beginning of the push history, without a reordering, a duplicate or a gap,
\* and while the session runs the messages still queued are the rest of it.
C14_FifoOrder ==
    /\ Len(written) <= Len(pushed)
    /\ written = SubSeq(pushed, 1, Len(written))
    /\ SessionRunning => written \o outgoing = pushed

C14_Witness ==
    /\ Len(written) >= 2
    /\ outgoing # <<>>
    /\ written[1] > written[2]

\* C15: when client and server share no version the server sends no
\* SERVER_SETUP and accept fails with the Version error, the client's connect
\* returns a Version error too, and connect never succeeds with a server
\* version the client did not offer.
C15_VersionMismatch ==
    /\ accept_res = "Version" => ~server_setup.sent
    /\ (accept_res # "none" /\ ~Contains(client_setup.versions, DRAFT_14)) =>
          accept_res = "Version"
    /\ (connect_res # "none" /\ ~server_setup.sent) => connect_res = "Version"
    /\ connect_res = "Ok" => Contains(client_setup.versions, server_setup.version)

Max(S) == CHOOSE x \in S : \A y \in S : y <= x
Range(xs) == {xs[i] : i \in 1..Len(xs)}

\* C16: the version in SERVER_SETUP is the numerically largest version that
\* the server's list and the client's list share, whatever the order of the
\* client's list and however often it repeats a version, and accept sends a
\* SERVER_SETUP exactly when the two lists share a version; largest_common
\* returns the largest common item of any two lists, and None when there is none.
C16_LargestCommon ==
    /\ lc_call.called =>
          LET common == Range(lc_call.a) \cap Range(lc_call.b) IN
          lc_call.ret = IF common = {} THEN <<>> ELSE <<Max(common)>>
    /\ accept_res # "none" =>
          LET common == {DRAFT_14} \cap Range(client_setup.versions) IN
          /\ server_setup.sent <=> common # {}
          /\ server_setup.sent => server_setup.version = Max(common)
          /\ accept_res = IF common = {} THEN "Version" ELSE "Ok"

C16_Witness ==
    /\ lc_call.called
    /\ Len(lc_call.a) = MaxVersions /\ Len(lc_call.b) = MaxVersions
    /\ lc_call.ret # <<>> /\ lc_call.a[1] < lc_call.ret[1] /\ lc_call.b[1] > lc_call.ret[1]
    /\ accept_res = "Ok"
    /\ Len(client_setup.versions) = MaxVersions
    /\ client_setup.versions[1] # DRAFT_14

\* C17: Session::run is fail-fast: as soon as one of its four tasks finishes,
\* run returns the result of that task, the result never changes afterwards,
\* and none of the four tasks takes a further step.
C17_FailFast ==
    [][/\ session_res # "running" =>
             /\ session_res' = session_res
             /\ task_steps' = task_steps
             /\ written' = written
       /\ (session_res = "running" /\ session_res' # "running") =>
             /\ \E t \in Tasks : session_res' \in TaskResults(t)
             /\ task_steps' = task_steps]_vars

C17_Witness ==
    /\ session_res = "Serve"
    /\ task_steps["run_datagrams"] = MaxSteps
    /\ task_steps["run_send"] = 0
    /\ task_steps["run_recv"] = MaxSteps

\* C18: serve_subscribe resolves a SUBSCRIBE in a fixed order: when the local
\* registration with the longest prefix of the namespace serves the track, the
\* SUBSCRIBE is served by that reader and no remote is consulted; otherwise,
\* when Remotes is configured and the coordinator knows the origin, it is
\* served by the reader that subscribe on the routed remote returns; otherwise
\* it is closed with NotFound, and neither the remotes nor the locals change.
C18_ServeOrder ==
    [][\A q \in SubscribeNamespaces, k \in SubscribeKeys,
          local_serves, remotes_configured, lookup_ok \in BOOLEAN, origin \in SubscribeOrigins :
          ServeSubscribe(q, k, local_serves, remotes_configured, lookup_ok, origin) =>
             LET local == PrefixRegs(q) # {} /\ local_serves
                 remote == remotes_configured /\ lookup_ok
             IN
             /\ local =>
                   /\ serve_ret'.kind = "local"
                   /\ serve_ret'.reader = LongestPrefixReg(q)
                   /\ UNCHANGED <<varsRemotes, varsRemote>>
             /\ (~local /\ remote) =>
                   /\ serve_ret'.kind = "remote"
                   /\ serve_ret'.reader = sub_ret'.reader
             /\ (~local /\ ~remote) =>
                   /\ serve_ret'.kind = "NotFound"
                   /\ UNCHANGED <<remotes_lookup, remotes_requested, remotes, varsRemote>>
             /\ UNCHANGED varsLocals]_vars

C19_State ==
    \A p \in ServePublishers :
        ann[p].pc = "ended" =>
            /\ \A ns \in Namespaces : locals_lookup[ns] # p
            /\ p \notin Retrieve(locals_lookup, ann[p].namespace)

C19_Step ==
    \A p \in ServePublishers :
        /\ (ann[p].pc = "serving" /\ ann'[p].pc = "ended") =>
              /\ locals_lookup'[ann[p].namespace] = None
              /\ coordinator_kind = "file" =>
                    coord_file'[namespace_key(ann[p].namespace)] = NoEntry
              /\ coordinator_kind = "api" =>
                    api'[p].shutdown_tx /\ api'[p].unregister = "pending"
        /\ (api[p].unregister = "pending" /\ api'[p].unregister = "done") =>
              api_registry'[to_utf8_path(ann[p].namespace)] = NoEntry
        /\ api[p].refresh = "stopped" => api'[p].refresh # "patching"

RECURSIVE SumDeltas(_, _)
SumDeltas(objects, k) ==
    IF k = 0 THEN 0 ELSE SumDeltas(objects, k - 1) + objects[k].object_id_delta

C21_RoundTrip ==
    codec.op = "encode_decode" =>
        /\ codec.ret.err = "Ok"
        /\ codec.ret.fields = codec.arg
        /\ codec.ret.rest = codec.tail
        /\ Len(TrackNamespaceEncode(codec.arg).bytes) = codec.written

C21_Witness ==
    /\ codec.op = "encode_decode"
    /\ Len(codec.arg) = 2
    /\ Len(codec.arg[1]) = 64
    /\ codec.arg[2] = <<97, 98>>
    /\ codec.tail = <<1, 97>>
    /\ codec.ret.fields = codec.arg

WithinLimits(fields) ==
    /\ Len(fields) <= MAX_FIELDS
    /\ \A i \in 1..Len(fields) : Len(fields[i]) <= MAX_VALUE_SIZE

\* C22: more than MAX_FIELDS (32) fields are refused by encode
\* (FieldBoundsExceeded), by decode when the count at the head of the buffer
\* is over 32 (FieldBoundsExceeded) and by try_from (TooManyFields); try_from
\* refuses a list of at most 32 fields with a field over MAX_VALUE_SIZE (4096)
\* bytes with FieldTooLarge; and a namespace within both limits is accepted by
\* encode, by try_from and, once encoded, by decode.
C22_Limits ==
    /\ codec.op = "encode" =>
          /\ Len(codec.arg) > MAX_FIELDS => codec.ret.err = "FieldBoundsExceeded"
          /\ WithinLimits(codec.arg) => codec.ret.err = "Ok"
    /\ codec.op = "decode" =>
          /\ (VarIntDecode(codec.arg).err = "Ok" /\ VarIntDecode(codec.arg).value > MAX_FIELDS)
                => codec.ret.err = "FieldBoundsExceeded"
          /\ codec.ret.err = "Ok" => WithinLimits(codec.ret.fields)
    /\ codec.op = "encode_decode" =>
          (WithinLimits(codec.arg) => codec.ret.err = "Ok" /\ codec.ret.fields = codec.arg)
    /\ codec.op = "try_from" =>
          /\ Len(codec.arg) > MAX_FIELDS => codec.ret.err = "TooManyFields"
          /\ (Len(codec.arg) <= MAX_FIELDS
              /\ \E i \in 1..Len(codec.arg) : Len(codec.arg[i]) > MAX_VALUE_SIZE)
                => codec.ret.err = "FieldTooLarge"
          /\ WithinLimits(codec.arg) => (codec.ret.err = "Ok" /\ codec.ret.fields = codec.arg)

C22_Witness ==
    /\ codec.op = "try_from"
    /\ Len(codec.arg) = MAX_FIELDS + 1
    /\ codec.ret.err = "TooManyFields"

\* C23: the refresh interval is half the registration TTL, rounded down (600
\* and 300 after new(), t and t \div 2 after with_ttl(t), for every t), and
\* the refresh task of a registration calls patch_origin with that period: it
\* runs, and its k-th PATCH comes (k - 1) * (TTL \div 2) seconds after its
\* first.
C23_RefreshPeriod ==
    /\ config.refresh_interval_secs = config.registration_ttl_secs \div 2
    /\ config.registration_ttl_secs = DEFAULT_REGISTRATION_TTL_SECS
          => config.refresh_interval_secs = 300
    /\ refresh_timer.state # "panicked"
    /\ \A k \in 1..Len(patch_times) :
          patch_times[k] = patch_times[1] + (k - 1) * (config.registration_ttl_secs \div 2)

C24_State ==
    \A p \in ServePublishers :
        ann[p].pc \in {"start", "coord_registered", "rejected"} => ~ann[p].ok

C24_Step ==
    \A p \in ServePublishers :
        LET ns == ann[p].namespace IN
        \* the coordinator is asked first, at the start of serve
        /\ (ann[p].pc # "coord_registered" /\ ann'[p].pc = "coord_registered") =>
              /\ ann[p].pc = "start"
              /\ locals_lookup' = locals_lookup
              /\ IF coordinator_kind = "file"
                 THEN coord_file'[namespace_key(ns)] = ThisRelay
                 ELSE api_registry'[to_utf8_path(ns)] = ThisRelay /\ api'[p].refresh = "idle"
        \* OK is sent in the step that registers in Locals, after the coordinator
        /\ (~ann[p].ok /\ ann'[p].ok) =>
              /\ ann[p].pc = "coord_registered"
              /\ locals_lookup[ns] = None
              /\ locals_lookup'[ns] = p
        \* a failed registration: no OK, nothing of this announce is left
        /\ (ann[p].pc # "rejected" /\ ann'[p].pc = "rejected") =>
              /\ ~ann'[p].ok
              /\ locals_lookup' = locals_lookup
              /\ locals_lookup[ns] # p
              /\ IF ann[p].pc = "start"
                 THEN UNCHANGED <<coord_file, api_registry, api>>
                 ELSE IF coordinator_kind = "file"
                 THEN coord_file'[namespace_key(ns)] = NoEntry
                 ELSE api'[p].shutdown_tx /\ api'[p].unregister = "pending"

FilePrefixes(q) ==
    {ns \in AnnounceNamespaces : coord_file[namespace_key(ns)] # NoEntry /\ IsPrefix(ns, q)}

\* C25: lookup(q) of the file coordinator returns the entry registered under
\* exactly q when there is one, otherwise the entry of the longest registered
\* namespace that is an element-wise prefix of q, and NamespaceNotFound when
\* no registered namespace equals q or is a prefix of it: a registered
\* namespace longer than q, or differing from q in a field, never matches.
C25_FileLookup ==
    \A q \in Namespaces :
        FileLookup(coord_file, q) =
            IF FilePrefixes(q) = {} THEN {NamespaceNotFound}
            ELSE LET best == CHOOSE ns \in FilePrefixes(q) :
                                 \A other \in FilePrefixes(q) : Len(other) <= Len(ns)
                 IN {[namespace |-> IF best = q THEN q
                                    ELSE from_utf8_path(namespace_key(best)),
                      url |-> coord_file[namespace_key(best)]]}

C27_Step ==
    \A p \in ServePublishers :
        \* the drop sends the signal and spawns the task that issues the DELETE
        /\ (~api[p].shutdown_tx /\ api'[p].shutdown_tx) => api'[p].unregister = "pending"
        /\ (api[p].unregister # "pending" /\ api'[p].unregister = "pending") =>
              (api'[p].shutdown_tx /\ api[p].unregister = "none")
        \* one DELETE for the registration
        /\ api[p].unregister = "done" =>
              (api'[p].unregister = "done" \/ api'[p] = [NoTasks EXCEPT !.refresh = "idle"])
        \* once the signal is sent the refresh task starts no tick
        /\ api[p].shutdown_tx => ~(api[p].refresh = "idle" /\ api'[p].refresh = "patching")

\* C27: with the API coordinator the drop of a registration handle sends the
\* shutdown signal and spawns the one task that issues the DELETE; from the
\* signal on the refresh task of that registration starts no further tick,
\* and it terminates, and the DELETE is issued.
C27_ShutdownStopsRefresh ==
    /\ [][C27_Step]_vars
    /\ \A p \in ServePublishers :
          api[p].shutdown_tx ~> (api[p].refresh = "stopped" /\ api[p].unregister = "done")

\* C28: once the run loop of a remote has exited (its producer is dropped and
\* the state cell closed), a subscribe on the consumer that route() may still
\* hand out yields no reader: it returns none, creates no reader and queues
\* no writer, so nobody is given a reader that will not be served.
C28_DeadRemoteYieldsNoReader ==
    [][\A k \in Keys :
          (remote_closed /\ RemoteSubscribe(k)) =>
              /\ sub_ret'.kind = "closed"
              /\ sub_ret'.reader = None
              /\ UNCHANGED <<readers, remote_requested, remote_tracks>>]_vars

\* C29: SUBSCRIBE_ERROR or PUBLISH_DONE for request id i removes subscription
\* i from the active subscribes and fails it with the received code, and
\* afterwards no alias leads to i; the entries of the other subscriptions in
\* both maps stay as they were, the alias map is untouched when i was never
\* OK'd, and a message for an id that is not active changes nothing.
C29_RemoveFrame ==
    [][\A id \in SubIds :
          (recv_subscribe_error(id) \/ recv_publish_done(id)) =>
              IF subscribes[id].st = "active"
              THEN /\ subscribes'[id].st = "removed"
                   /\ subscribes'[id].err = "Closed"
                   /\ \A a \in Aliases : subscribe_alias_map'[a] # id
                   /\ \A a \in Aliases :
                         subscribe_alias_map[a] # id =>
                             subscribe_alias_map'[a] = subscribe_alias_map[a]
                   /\ \A j \in SubIds \ {id} : subscribes'[j] = subscribes[j]
                   /\ subscribes[id].track_alias = None =>
                         subscribe_alias_map' = subscribe_alias_map
              ELSE UNCHANGED <<subscribes, subscribe_alias_map>>]_vars

\* C30: a PublishNamespace that arrives when the announced queue is closed is
\* answered with a reply that carries Cancel for its request, its namespace is not
\* in the announce map afterwards, recv_message returns Ok, and the control loop
\* is still running, so that the messages received next are processed.
C30_Step(ns) ==
    (announced_queue.closed /\ ns \notin announced /\ RecvPublishNamespace(ns)) =>
        /\ recv_log'[Len(recv_log')].res = "Ok"
        /\ ns \notin announced'
        /\ announced_queue' = announced_queue
        /\ Len(subscriber_outgoing') = Len(subscriber_outgoing) + 1
        /\ LET reply == subscriber_outgoing'[Len(subscriber_outgoing')]
           IN  /\ reply.error_code = "Cancel"
               /\ reply.namespace = ns
               /\ reply.id = Len(recv_log)
        /\ ControlRunning'

C31_DuplicateKeepsSession ==
    [][\A ns \in AnnounceNamespaces :
          (ns \in announced /\ RecvPublishNamespace(ns)) =>
              /\ recv_log'[Len(recv_log')].res = "Duplicate"
              /\ UNCHANGED <<announced, announced_queue>>
              /\ ControlRunning']_vars

\* C32: a control message that is recognised but not implemented (PUBLISH,
\* FETCH_OK, FETCH_ERROR, SUBSCRIBE_NAMESPACE_OK, SUBSCRIBE_NAMESPACE_ERROR, or a
\* message of neither class) ends the session with Unimplemented: run_recv returns
\* that error and the message changes nothing in the Subscriber.
C32_Messages ==
    {"Publish", "FetchOk", "FetchError", "SubscribeNamespaceOk", "SubscribeNamespaceError"}

C32_UnimplementedEndsSession ==
    [][/\ RecvMessageResult(SessionErrorUnimplemented) = "Unimplemented"
       /\ \A msg \in C32_Messages :
             RunRecvUnimplemented(msg) =>
                 /\ session_res' = "Unimplemented"
                 /\ UNCHANGED <<varsAnnounced, varsSubscriber>>
       /\ \A msg \in NeitherMessages :
             RunRecvNeither(msg) =>
                 /\ session_res' = "Unimplemented"
                 /\ UNCHANGED <<varsAnnounced, varsSubscriber>>]_vars

\* The session was ended by Unimplemented while a subscription was active and a
\* namespace was announced.
C32_Witness ==
    /\ session_res = "Unimplemented"
    /\ \E i \in SubIds : subscribes[i].st = "active" /\ subscribes[i].track_alias # None
    /\ announced # {}

\* C33: run_recv hands every Publisher-class message to the Subscriber handle and
\* every Subscriber-class message to the Publisher handle, and a message whose
\* classification is unknown or unexpected (it is of neither class, or the
\* handle it is addressed to is absent) fails the session with RoleViolation.
C33_RoleViolation ==
    [][/\ \A msg \in PublisherMessages \cup SubscriberMessages \cup NeitherMessages :
             \A handles \in [publisher : BOOLEAN, subscriber : BOOLEAN] :
                Classify(msg, handles) =
                    IF msg \in PublisherMessages /\ handles.subscriber THEN "subscriber"
                    ELSE IF msg \in SubscriberMessages /\ handles.publisher THEN "publisher"
                    ELSE "RoleViolation"
       /\ \A msg \in NeitherMessages :
             RunRecvNeither(msg) => session_res' = "RoleViolation"]_vars

\* C34: serve_track_status answers from Locals only: it replies OK, with the
\* reader of the local registration with the longest prefix of the namespace, when
\* that registration serves the track, and replies error 4 in every other case;
\* the remotes are never consulted.
C34_TrackStatusFromLocals ==
    [][\A q \in SubscribeNamespaces, k \in SubscribeKeys, local_serves \in BOOLEAN :
          ServeTrackStatus(q, k, local_serves) =>
             /\ IF PrefixRegs(q) # {} /\ local_serves
                THEN /\ serve_ret'.kind = "status_ok"
                     /\ serve_ret'.reader = LongestPrefixReg(q)
                ELSE serve_ret'.kind = "status_error_4"
             /\ UNCHANGED <<varsRemotes, varsRemote, varsLocals>>]_vars

\* C35: while an announce is being served (its namespace is registered in Locals)
\* and the coordinator file names this relay for the namespace, a second announce
\* of the same namespace that is rejected with Duplicate by Locals leaves that
\* entry of the coordinator as it is.
C35_DuplicateKeepsRegistration ==
    [][\A p \in Publishers :
          LET ns == ann[p].namespace IN
          (/\ ServeLocalsRegister(p)
           /\ Serving(ns) # {}
           /\ coord_file[namespace_key(ns)] = ThisRelay) =>
              /\ ann'[p].err = "Duplicate"
              /\ coord_file'[namespace_key(ns)] = ThisRelay
              /\ \A q \in Serving(ns) : ann'[q].pc = "serving"]_vars

\* C36: the drop of a registration handle removes only the registration the
\* handle made: when the second relay has registered the namespace after this
\* relay, so that the entry holds its URL, the end of this relay's announce
\* leaves the entry alone and lookup returns the second relay's URL.
C36_DropRemovesOwnEntryOnly ==
    [][\A p \in Publishers :
          LET ns == ann[p].namespace IN
          (/\ AnnounceEnds(p)
           /\ ns \in other_handles
           /\ coord_file[namespace_key(ns)] = OtherRelay) =>
              /\ coord_file'[namespace_key(ns)] = OtherRelay
              /\ FileLookup(coord_file', ns) = {[namespace |-> ns, url |-> OtherRelay]}]_vars

\* C37: with the API coordinator, once the DELETE of a dropped registration has
\* been issued no PATCH of the refresh task of that registration is in flight, and
\* none is started afterwards.
C37_NoPatchAfterDelete ==
    \A p \in ServePublishers :
        api[p].unregister = "done" => api[p].refresh # "patching"

\* C38: no SUBSCRIBE_OK or SUBSCRIBE_ERROR for a request id is dropped because
\* run_recv handled it before subscribe() had inserted the subscription: whenever
\* a reply for id i is handled, the subscribes map has the entry of i.
C38_ReplyFindsSubscription == sub_replies.ignored = {}

\* C39: for every namespace whose fields are non-empty and hold no '/',
\* from_utf8_path(to_utf8_path(ns)) is ns, with the same number of fields and
\* the same values, so the namespace rebuilt from a registry key is the one that
\* was registered under the key.
C39_PathRoundTrip ==
    codec.op = "path" =>
        /\ codec.path = namespace_key(codec.arg)
        /\ Len(codec.ret) = Len(codec.arg)
        /\ codec.ret = codec.arg

\* C40: a TRACK_STATUS request that misses fails only that request: when the
\* Subscriber has sent TRACK_STATUS and the peer's error reply is received, the
\* session keeps running and its subscriptions and announces stay as they were.
C40_TrackStatusErrorKeepsSession ==
    [][(/\ \E i \in 1..Len(subscriber_outgoing) : subscriber_outgoing[i].type = "TrackStatus"
        /\ RunRecvUnimplemented("TrackStatusError")) =>
            /\ session_res' = "running"
            /\ UNCHANGED <<varsSubscriber, announced, announced_queue>>]_vars

====
